---------------------------- MODULE Spec2Model ----------------------------
(***************************************************************************)
(* A model of giscanner/docwriter.py: the templated scanner (grammar       *)
(* compiler and token scanner) and the DocFormatter markup transducer.     *)
(*                                                                         *)
(* Texts are TLA+ strings; a character is a string of length 1.  Offsets   *)
(* are Python offsets (0-based, text[a:b] is SubSeq(text, a + 1, b)).      *)
(* Python's None is the empty tuple <<>>, a present value v is <<v>>.      *)
(***************************************************************************)
EXTENDS Integers, Sequences, FiniteSets, TLC

(***************************************************************************)
(* Bounds of the model.                                                    *)
(***************************************************************************)
MaxScanPieces == 3   \* a scanned text is at most this many pieces long
MaxStall == 2        \* loop iterations of scan observed without progress
MaxDocPieces == 3    \* a document is at most this many pieces long
MaxXrefPieces == 2   \* a document of references is at most this many long
MaxCalls == 3        \* cross-references rendered by one formatter
MaxEscapePieces == 3 \* a text given to escape is at most this many characters
MaxImplicitPieces == 3 \* a text of plain words is at most this many pieces long
MaxSymbols == 3  \* a section lists at most this many symbols
MaxSections == 2 \* a sections file holds at most this many sections

(***************************************************************************)
(* Characters.  The classes of the grammar are restricted to the           *)
(* characters the model's texts are made of.                               *)
(***************************************************************************)
Letters == {"a", "c", "e", "f", "g", "l", "n", "s", "t", "u", "x", "y", "C", "T"}
Digits == {"1"}
Dash == "-"
Punct == {"#", "|", "[", "]", "<", ">", "!", "=", "\"", ":", "%", "@",
          "(", ")", "{", "}", "&", ".", Dash}
Blank == {" ", "\n"}
Chars == Letters \cup Digits \cup {"_"} \cup Punct \cup Blank

Alpha == Letters \cup Digits \cup {"_"}            \* [a-zA-Z0-9_]
AlphaDash == Alpha \cup {Dash}                     \* [a-zA-Z0-9_-]
Dot == Chars \ {"\n"}                              \* .
Space == Blank                                     \* \s

CharAt(text, i) == SubSeq(text, i + 1, i + 1)      \* text[i]
Slice(text, a, b) == SubSeq(text, a + 1, b)        \* text[a:b]

StartsWith(s, prefix) ==
    /\ Len(s) >= Len(prefix)
    /\ SubSeq(s, 1, Len(prefix)) = prefix

None == <<>>
Some(v) == <<v>>

(***************************************************************************)
(* Pattern items.  A spec's pattern is a sequence of items: a quantified   *)
(* character class, or a placeholder <<ref>> / <<alias:ref>>.              *)
(***************************************************************************)
One(c) == [q |-> "1", cls |-> {c}, alias |-> "", ref |-> ""]
Plus(cls) == [q |-> "+", cls |-> cls, alias |-> "", ref |-> ""]
Star(cls) == [q |-> "*", cls |-> cls, alias |-> "", ref |-> ""]
Ref(alias, ref) == [q |-> "ref", cls |-> {}, alias |-> alias, ref |-> ref]

RECURSIVE Literal(_)
Literal(s) == IF s = "" THEN <<>>
              ELSE <<One(CharAt(s, 0))>> \o Literal(Slice(s, 1, Len(s)))


(***************************************************************************)
(* DocstringScanner.__init__: the specs, in source order.  A name that     *)
(* starts with "!" is private.                                             *)
(***************************************************************************)
DocstringSpecs == <<
    [name |-> "!alpha", pattern |-> <<Plus(Alpha)>>],
    [name |-> "!alpha_dash", pattern |-> <<Plus(AlphaDash)>>],
    [name |-> "!anything", pattern |-> <<Star(Dot)>>],
    [name |-> "note",
     pattern |-> <<Plus({"\n"}), One(">"), Star(Space),
                   Ref("note_contents", "anything"), Star(Space), One("\n")>>],
    [name |-> "new_paragraph", pattern |-> Literal("\n\n")],
    [name |-> "new_line", pattern |-> Literal("\n")],
    [name |-> "code_start_with_language",
     pattern |-> Literal("|[<!--") \o <<Star(Space)>> \o Literal("language")
                 \o <<Star(Space), One("="), Star(Space), One("\""),
                      Ref("language_name", "alpha"), One("\""), Star(Space)>>
                 \o Literal("-->")],
    [name |-> "code_start", pattern |-> Literal("|[")],
    [name |-> "code_end", pattern |-> Literal("]|")],
    [name |-> "property",
     pattern |-> <<One("#"), Ref("type_name", "alpha"), One(":"),
                   Ref("property_name", "alpha_dash")>>],
    [name |-> "signal",
     pattern |-> <<One("#"), Ref("type_name", "alpha"), One(":"), One(":"),
                   Ref("signal_name", "alpha_dash")>>],
    [name |-> "type_name", pattern |-> <<One("#"), Ref("type_name", "alpha")>>],
    [name |-> "enum_value", pattern |-> <<One("%"), Ref("member_name", "alpha")>>],
    [name |-> "parameter", pattern |-> <<One("@"), Ref("param_name", "alpha")>>],
    [name |-> "function_call",
     pattern |-> <<Ref("symbol_name", "alpha"), One("("), One(")")>>],
    [name |-> "include",
     pattern |-> <<One("{"), One("{"), Star(Space),
                   Ref("include_name", "anything"), Star(Space),
                   One("}"), One("}")>>],
    [name |-> "heading",
     pattern |-> <<Plus({"#"}), Plus(Space), Ref("heading", "anything")>> ]
>>

(***************************************************************************)
(* TemplatedScanner.unmangle_specs.  The expansion of a pattern is a       *)
(* sequence of atoms (quantified classes) and the named groups over them:  *)
(* [name, first, last] captures atoms first..last.                         *)
(***************************************************************************)
IsPrivate(name) == StartsWith(name, "!")

RECURSIVE LStrip(_, _)
LStrip(s, c) == IF StartsWith(s, c) THEN LStrip(Slice(s, 1, Len(s)), c) ELSE s

\* specdict = dict((name.lstrip('!'), spec) ...): the last spec of a name wins
SpecDict(specs, ref) ==
    LET I == {i \in 1..Len(specs) : LStrip(specs[i].name, "!") = ref}
        last == CHOOSE i \in I : \A j \in I : j <= i
    IN specs[last].pattern

RECURSIVE Unmangle(_, _, _)
Unmangle(specs, pattern, name) ==
    IF pattern = <<>> THEN [atoms |-> <<>>, groups |-> <<>>]
    ELSE
      LET item == Head(pattern)
          \* Force all child specs of this one to be unnamed
          head == IF item.q = "ref"
                  THEN LET child == Unmangle(specs, SpecDict(specs, item.ref), "")
                       IN IF item.alias # "" /\ name # ""
                          THEN [atoms |-> child.atoms,
                                groups |-> <<[name |-> name \o "_" \o item.alias,
                                              first |-> 1,
                                              last |-> Len(child.atoms)]>>]
                          ELSE [atoms |-> child.atoms, groups |-> <<>>]
                  ELSE [atoms |-> <<[q |-> item.q, cls |-> item.cls]>>,
                        groups |-> <<>>]
          rest == Unmangle(specs, Tail(pattern), name)
          n == Len(head.atoms)
          Shift(g) == [name |-> g.name, first |-> g.first + n, last |-> g.last + n]
      IN [atoms |-> head.atoms \o rest.atoms,
          groups |-> head.groups
                     \o [i \in 1..Len(rest.groups) |-> Shift(rest.groups[i])]]

unmangle_specs(specs) ==
    [i \in 1..Len(specs) |->
        LET u == Unmangle(specs, specs[i].pattern, specs[i].name)
        IN [name |-> specs[i].name, atoms |-> u.atoms, groups |-> u.groups]]

\* TemplatedScanner.make_regex: the ordered alternation of the public specs
make_regex(specs) ==
    SelectSeq(specs, LAMBDA s : ~IsPrivate(s.name))

TemplatedScanner(specs) == make_regex(unmangle_specs(specs))

DocstringScanner == TemplatedScanner(DocstringSpecs)

(***************************************************************************)
(* The compiled regex: re's greedy, backtracking match of a sequence of    *)
(* atoms, and regex.search(text, pos).                                     *)
(***************************************************************************)
NoMatch == [ok |-> FALSE, ends |-> <<>>]

\* the number of consecutive characters of cls in text from offset i, at most cap
RECURSIVE RunLen(_, _, _, _)
RunLen(cls, text, i, cap) ==
    IF cap = 0 \/ i >= Len(text) \/ CharAt(text, i) \notin cls THEN 0
    ELSE 1 + RunLen(cls, text, i + 1, cap - 1)

\* atoms k.. matched at offset i: ends[j] is the offset after atom k + j - 1
RECURSIVE MatchFrom(_, _, _, _), TryLen(_, _, _, _, _)
MatchFrom(atoms, text, k, i) ==
    IF k > Len(atoms) THEN [ok |-> TRUE, ends |-> <<>>]
    ELSE LET a == atoms[k]
             cap == IF a.q = "1" THEN 1 ELSE Len(text)
         IN TryLen(atoms, text, k, i, RunLen(a.cls, text, i, cap))

\* greedy: the longest run first, then shorter ones down to the minimum
TryLen(atoms, text, k, i, n) ==
    IF n < (IF atoms[k].q = "*" THEN 0 ELSE 1) THEN NoMatch
    ELSE LET r == MatchFrom(atoms, text, k + 1, i + n)
         IN IF r.ok THEN [ok |-> TRUE, ends |-> <<i + n>> \o r.ends]
            ELSE TryLen(atoms, text, k, i, n - 1)

\* every named group of the regex: the alternatives and their sub-groups
GroupNames(regex) ==
    {regex[i].name : i \in 1..Len(regex)}
    \cup UNION {{regex[i].groups[j].name : j \in 1..Len(regex[i].groups)} :
                 i \in 1..Len(regex)}

\* match.groupdict(): a group that did not participate is None
GroupDict(regex, text, w, s, ends) ==
    [g \in GroupNames(regex) |->
        IF g = regex[w].name THEN Some(Slice(text, s, ends[Len(ends)]))
        ELSE IF \E j \in 1..Len(regex[w].groups) : regex[w].groups[j].name = g
        THEN LET j == CHOOSE j \in 1..Len(regex[w].groups) :
                          regex[w].groups[j].name = g
                 grp == regex[w].groups[j]
                 from == IF grp.first = 1 THEN s ELSE ends[grp.first - 1]
             IN Some(Slice(text, from, ends[grp.last]))
        ELSE None]

\* the first alternative, in order from w, that matches at offset s
RECURSIVE FirstAlt(_, _, _, _)
FirstAlt(regex, text, s, w) ==
    IF w > Len(regex) THEN [ok |-> FALSE]
    ELSE LET r == MatchFrom(regex[w].atoms, text, 1, s)
         IN IF r.ok
            THEN [ok |-> TRUE, start |-> s,
                  end |-> IF r.ends = <<>> THEN s ELSE r.ends[Len(r.ends)],
                  lastgroup |-> regex[w].name,
                  groupdict |-> IF r.ends = <<>>
                                THEN [g \in GroupNames(regex) |->
                                        IF g = regex[w].name THEN Some("") ELSE None]
                                ELSE GroupDict(regex, text, w, s, r.ends)]
            ELSE FirstAlt(regex, text, s, w + 1)

\* regex.search(text, pos): the leftmost match at or after pos
RECURSIVE Search(_, _, _)
Search(regex, text, pos) ==
    IF pos > Len(text) THEN [ok |-> FALSE]
    ELSE LET m == FirstAlt(regex, text, pos, 1)
         IN IF m.ok THEN m ELSE Search(regex, text, pos + 1)

(***************************************************************************)
(* TemplatedScanner.get_properties and TemplatedScanner.scan.              *)
(***************************************************************************)
get_properties(name, match) ==
    LET groupdict == match.groupdict
        prefix == name \o "_"
        rest == DOMAIN groupdict \ {name}            \* groupdict.pop(name)
        keys == {Slice(g, Len(prefix), Len(g)) : g \in {h \in rest : StartsWith(h, prefix)}}
    IN [k \in {name} \cup keys |->
            IF (prefix \o k) \in rest /\ StartsWith(prefix \o k, prefix)
            THEN groupdict[prefix \o k]
            ELSE groupdict[name]]

Token(kind, match, props) == [kind |-> kind, match |-> match, props |-> props]

\* mutant of ScanIteration: the gap before a match is not yielded
ScanIteration_NoGap(regex, text, pos) ==
    LET match == Search(regex, text, pos)
    IN IF ~match.ok
       THEN [brk |-> TRUE, pos |-> pos,
             yields |-> IF pos < Len(text)
                        THEN <<Token("other", Slice(text, pos, Len(text)), None)>>
                        ELSE <<>>]
       ELSE [brk |-> FALSE, pos |-> match.end,
             yields |-> <<Token(match.lastgroup,
                                Slice(text, match.start, match.end),
                                get_properties(match.lastgroup, match))>>]

\* One iteration of the while loop of scan, from cursor pos: the tokens it
\* yields and the cursor after it; on break, the trailing 'other' token.
ScanIteration(regex, text, pos) ==
    LET match == Search(regex, text, pos)
    IN IF ~match.ok
       THEN [brk |-> TRUE, pos |-> pos,
             yields |-> IF pos < Len(text)
                        THEN <<Token("other", Slice(text, pos, Len(text)), None)>>
                        ELSE <<>>]
       ELSE [brk |-> FALSE, pos |-> match.end,
             yields |-> (IF match.start > pos
                         THEN <<Token("other", Slice(text, pos, match.start), None)>>
                         ELSE <<>>)
                        \o <<Token(match.lastgroup,
                                   Slice(text, match.start, match.end),
                                   get_properties(match.lastgroup, match))>>]

\* list(scan(text)) from cursor pos; defined when the generator terminates
RECURSIVE ScanFrom(_, _, _)
ScanFrom(regex, text, pos) ==
    LET it == ScanIteration(regex, text, pos)
    IN IF it.brk THEN it.yields ELSE it.yields \o ScanFrom(regex, text, it.pos)

Scan(regex, text) == ScanFrom(regex, text, 0)

(***************************************************************************)
(* A second, generic grammar for TemplatedScanner: its alternative "word"  *)
(* can match the empty string.                                             *)
(***************************************************************************)
WordSpecs == <<
    [name |-> "!letters", pattern |-> <<Star(Letters)>>],
    [name |-> "tag", pattern |-> <<One("#"), Ref("name", "letters")>>],
    [name |-> "word", pattern |-> <<Ref("text", "letters")>>]
>>

WordScanner == TemplatedScanner(WordSpecs)

Scanners == {DocstringScanner, WordScanner}

(***************************************************************************)
(* The texts handed to scan: at most MaxScanPieces pieces.                 *)
(***************************************************************************)
ScanPieces == {"x", " ", "\n", "#", "|[", "<!-- language=\"c\" -->", "]|", ":s"}

RECURSIVE TextsOf(_, _)
TextsOf(pieces, n) ==
    IF n = 0 THEN {""}
    ELSE LET shorter == TextsOf(pieces, n - 1)
         IN shorter \cup {t \o p : t \in shorter, p \in pieces}

ScanTexts == TextsOf(ScanPieces, MaxScanPieces)

(***************************************************************************)
(* State of one scan() generator.                                          *)
(***************************************************************************)
VARIABLES
    scanner,     \* self.regex of the scanner the generator belongs to
    text,        \* the argument of scan
    pos,         \* the cursor
    yielded,     \* the tokens yielded so far
    scan_pc,     \* "loop": in the while loop; "done": the generator returned
    stalls       \* iterations that left the cursor where it was

scanVars == <<scanner, text, pos, yielded, scan_pc, stalls>>

ScanInit ==
    /\ scanner \in Scanners
    /\ text \in ScanTexts
    /\ pos = 0
    /\ yielded = <<>>
    /\ scan_pc = "loop"
    /\ stalls = 0

\* lines 213-223: a match is found, the gap and the token are yielded
ScanMatch ==
    /\ scan_pc = "loop"
    /\ LET it == ScanIteration(scanner, text, pos)
       IN /\ ~it.brk
          /\ it.pos = pos => stalls < MaxStall
          /\ pos' = it.pos
          /\ yielded' = yielded \o it.yields
          /\ stalls' = IF it.pos = pos THEN stalls + 1 ELSE stalls
    /\ UNCHANGED <<scanner, text, scan_pc>>

\* lines 214-215 and 225-226: no match is left, the rest is yielded
ScanBreak ==
    /\ scan_pc = "loop"
    /\ LET it == ScanIteration(scanner, text, pos)
       IN /\ it.brk
          /\ yielded' = yielded \o it.yields
    /\ scan_pc' = "done"
    /\ UNCHANGED <<scanner, text, pos, stalls>>

(***************************************************************************)
(* DocFormatter: the transducer state is the pair of fields                *)
(* self._processing_code and self._opened_sections, here the record        *)
(* [processing_code, opened_sections].  A handler maps (self, match,       *)
(* props) to the new fields, the string it returns and the exception it    *)
(* raises ("" when it returns).                                            *)
(***************************************************************************)
language_mimes ==
    [k \in {"bash-script", "shell", "csharp", "css", "diff", "html", "java",
            "javascript", "lisp", "lua", "c", "c++", "pascal", "perl", "php",
            "python", "ruby", "sql", "yaml"} |->
        CASE k = "bash-script" -> "application/x-shellscript"
          [] k = "shell" -> "application/x-shellscript"
          [] k = "csharp" -> "text/x-csharp"
          [] k = "css" -> "text/css"
          [] k = "diff" -> "text/xpatch"
          [] k = "html" -> "text/html"
          [] k = "java" -> "text/x-java"
          [] k = "javascript" -> "application/javascript"
          [] k = "lisp" -> "text/x-scheme"
          [] k = "lua" -> "text-x-lua"
          [] k = "c" -> "text/x-csrc"
          [] k = "c++" -> "text/x-c++src"
          [] k = "pascal" -> "text/x-pascal"
          [] k = "perl" -> "application/x-perl"
          [] k = "php" -> "application/x-php"
          [] k = "python" -> "text/x-python"
          [] k = "ruby" -> "application/x-ruby"
          [] k = "sql" -> "text/x-sql"
          [] k = "yaml" -> "application/x-yaml"]

\* str.lower() on the model's characters
LowerChar(c) == CASE c = "T" -> "t" [] c = "C" -> "c" [] OTHER -> c

RECURSIVE Lower(_)
Lower(s) == IF s = "" THEN ""
            ELSE LowerChar(CharAt(s, 0)) \o Lower(Slice(s, 1, Len(s)))

\* str.rstrip(c), str.strip(c)
RECURSIVE RStrip(_, _)
RStrip(s, c) == IF s # "" /\ CharAt(s, Len(s) - 1) = c
                THEN RStrip(Slice(s, 0, Len(s) - 1), c) ELSE s

Strip(s, c) == RStrip(LStrip(s, c), c)

\* saxutils.escape
EscapeChar(c) == CASE c = "&" -> "&amp;" [] c = "<" -> "&lt;"
                   [] c = ">" -> "&gt;" [] OTHER -> c

RECURSIVE escape(_)
escape(s) == IF s = "" THEN ""
             ELSE EscapeChar(CharAt(s, 0)) \o escape(Slice(s, 1, Len(s)))

Returns(self, ret) == [self |-> self, ret |-> ret, exc |-> ""]
Raises(self, exc) == [self |-> self, ret |-> "", exc |-> exc]

\* the formatter is built with resolve_implicit_links off
_resolve_implicit_links(match) == escape(match)

\* mutant of _process_other: the text is not escaped
_process_other_Raw(self, match, props) == Returns(self, match)

_process_other(self, match, props) ==
    Returns(self, _resolve_implicit_links(match))

_process_code_start(self, match, props) ==
    Returns([self EXCEPT !.processing_code = TRUE], "</p><code>")

_process_code_start_with_language(self, match, props) ==
    LET key == Lower(props["language_name"][1])
    IN IF key \notin DOMAIN language_mimes THEN Raises(self, "KeyError")
       ELSE LET mime == language_mimes[key]
                self1 == [self EXCEPT !.processing_code = TRUE]
            IN IF mime = "" THEN Returns(self1, "</p><code>")
               ELSE Returns(self1, "</p><code mime=\"" \o mime \o "\">")

\* mutant of _process_code_end: the paragraph is not opened again
_process_code_end_NoParagraph(self, match, props) ==
    Returns([self EXCEPT !.processing_code = FALSE], "</code>")

_process_code_end(self, match, props) ==
    Returns([self EXCEPT !.processing_code = FALSE], "</code><p>")

_process_new_line(self, match, props) == Returns(self, "\n")

\* mutant of _process_new_paragraph: the inside-code flag is not read
_process_new_paragraph_Always(self, match, props) == Returns(self, "</p><p>")

_process_new_paragraph(self, match, props) ==
    IF self.processing_code THEN Returns(self, "\n\n")
    ELSE Returns(self, "</p><p>")

_process_note(self, match, props) ==
    IF self.processing_code THEN Returns(self, match)
    ELSE Returns(self, "</p><note><p>" \o props["note_contents"][1]
                       \o "</p></note><p>")

\* while match[header_level] == "#": header_level += 1
\* (-1 stands for the IndexError of reading past the end of match)
RECURSIVE HeaderLevel(_, _)
HeaderLevel(match, header_level) ==
    IF header_level >= Len(match) THEN -1
    ELSE IF CharAt(match, header_level) = "#"
    THEN HeaderLevel(match, header_level + 1)
    ELSE header_level

\* while self._opened_sections >= header_level: close one section
RECURSIVE CloseSections(_, _, _)
CloseSections(result, opened_sections, header_level) ==
    IF opened_sections >= header_level
    THEN CloseSections(result \o "</section>", opened_sections - 1, header_level)
    ELSE [result |-> result, opened_sections |-> opened_sections]

\* while self._opened_sections < header_level: open one section
RECURSIVE OpenSections(_, _, _)
OpenSections(result, opened_sections, header_level) ==
    IF opened_sections < header_level
    THEN OpenSections(result \o "<section>", opened_sections + 1, header_level)
    ELSE [result |-> result, opened_sections |-> opened_sections]

_process_heading(self, match, props) ==
    IF self.processing_code THEN Returns(self, match)
    ELSE LET stripped == Strip(match, "\n")
             header_level == HeaderLevel(stripped, 0)
         IN IF header_level < 0 THEN Raises(self, "IndexError")
            ELSE LET closed == CloseSections("</p>", self.opened_sections,
                                             header_level)
                     opened == OpenSections(closed.result, closed.opened_sections,
                                            header_level)
                 IN Returns([self EXCEPT !.opened_sections = opened.opened_sections],
                            opened.result \o "<title>" \o props["heading"][1]
                            \o "</title><p>")

(***************************************************************************)
(* The namespaces as the transformer serves them.  A node is a record      *)
(* [kind, name, namespace, parent, symbol, properties, signals,            *)
(* parameters]: namespace is the name of the node's namespace, parent is   *)
(* None or the [name, namespace] of the owning type, and the lists hold    *)
(* names.  A class has properties and signals, a function has a C symbol   *)
(* and parameters; functions are not shadowed.                             *)
(***************************************************************************)
Class(namespace, name, properties, signals) ==
    [kind |-> "Class", name |-> name, namespace |-> namespace, parent |-> None,
     symbol |-> "", properties |-> properties, signals |-> signals,
     parameters |-> <<>>]

Function(namespace, name, symbol, parameters) ==
    [kind |-> "Function", name |-> name, namespace |-> namespace,
     parent |-> None, symbol |-> symbol, properties |-> <<>>,
     signals |-> <<>>, parameters |-> parameters]

Constant(namespace, name) ==
    [kind |-> "Constant", name |-> name, namespace |-> namespace,
     parent |-> None, symbol |-> "", properties |-> <<>>, signals |-> <<>>,
     parameters |-> <<>>]

\* the property or signal called name of the class type_node
Child(kind, type_node, name) ==
    [kind |-> kind, name |-> name, namespace |-> type_node.namespace,
     parent |-> Some([name |-> type_node.name, namespace |-> type_node.namespace]),
     symbol |-> "", properties |-> <<>>, signals |-> <<>>, parameters |-> <<>>]

\* hasattr(node, attr), for the attributes the formatter reads
HasAttr(node, attr) ==
    CASE attr \in {"properties", "signals"} -> node.kind = "Class"
      [] attr \in {"parameters", "get_parameter"} -> node.kind = "Function"
      [] OTHER -> TRUE

Namespace(name, version, identifier_prefix, symbol_prefix, packages, nodes) ==
    [name |-> name, version |-> version,
     identifier_prefix |-> identifier_prefix, symbol_prefix |-> symbol_prefix,
     exported_packages |-> packages, nodes |-> nodes]

\* the namespace being documented
NamespaceName == "T"
IdentifierPrefix == "T"

NamespaceT ==
    Namespace(NamespaceName, "1", IdentifierPrefix, "t", <<"t-1.0">>,
              <<Class(NamespaceName, "x", <<"a">>, <<"e">>),
                Class(NamespaceName, "ys", <<>>, <<>>),
                Function(NamespaceName, "f", "t_f", <<"a">>)>>)

\* a namespace it includes
NamespaceG ==
    Namespace("G", "2", "G", "g", <<"g-2.0">>, <<Class("G", "y", <<>>, <<>>)>>)

\* what the splitters do with an identifier of no namespace
OnUnknown == {"ValueError", "empty"}

Transformer(namespaces, on_unknown) ==
    [namespace |-> namespaces[1], namespaces |-> namespaces,
     on_unknown |-> on_unknown]

Transformers == {Transformer(<<NamespaceT, NamespaceG>>, u) : u \in OnUnknown}

\* the prefix a namespace gives to its types ("ctype") or to its C symbols
PrefixOf(ns, what) ==
    IF what = "ctype" THEN ns.identifier_prefix ELSE ns.symbol_prefix \o "_"

\* the candidates of the namespaces, in the order they were declared, whose
\* prefix starts the identifier
Candidates(transformer, ident, what) ==
    LET nss == SelectSeq(transformer.namespaces,
                         LAMBDA ns : StartsWith(ident, PrefixOf(ns, what)))
        matches == [i \in 1..Len(nss) |->
                        [namespace |-> nss[i],
                         name |-> Slice(ident, Len(PrefixOf(nss[i], what)),
                                        Len(ident))]]
    IN IF matches = <<>> /\ transformer.on_unknown = "ValueError"
       THEN [exc |-> "ValueError", matches |-> <<>>]
       ELSE [exc |-> "", matches |-> matches]

\* Transformer.split_ctype_namespaces: the (namespace, name) candidates of an
\* identifier; for an identifier of no namespace, ValueError or no candidate
split_ctype_namespaces(transformer, ident) ==
    Candidates(transformer, ident, "ctype")

\* Transformer.split_csymbol_namespaces: the same for a C symbol
split_csymbol_namespaces(transformer, symbol) ==
    Candidates(transformer, symbol, "csymbol")

\* the first node of a list whose index is in I, or None
FirstAt(nodes, I) ==
    IF I = {} THEN None
    ELSE Some(nodes[CHOOSE i \in I : \A j \in I : i <= j])

\* Namespace.get(name): the node of that name, or None
NamespaceGet(namespace, name) ==
    FirstAt(namespace.nodes,
            {i \in 1..Len(namespace.nodes) : namespace.nodes[i].name = name})

\* Namespace.get_by_symbol(symbol): the node of that C symbol, or None
get_by_symbol(namespace, symbol) ==
    FirstAt(namespace.nodes,
            {i \in 1..Len(namespace.nodes) :
                symbol # "" /\ namespace.nodes[i].symbol = symbol})

\* for namespace, name in matches: the first candidate that names a node
RECURSIVE FirstNode(_)
FirstNode(matches) ==
    IF matches = <<>> THEN None
    ELSE LET node == NamespaceGet(Head(matches).namespace, Head(matches).name)
         IN IF node # None THEN node ELSE FirstNode(Tail(matches))

\* for namespace, name in matches: the first candidate that holds the symbol
RECURSIVE FirstBySymbol(_, _)
FirstBySymbol(matches, symbol) ==
    IF matches = <<>> THEN None
    ELSE LET node == get_by_symbol(Head(matches).namespace, symbol)
         IN IF node # None THEN node ELSE FirstBySymbol(Tail(matches), symbol)

_resolve_type(self, ident) ==
    LET split == split_ctype_namespaces(self.transformer, ident)
    IN IF split.exc = "ValueError" THEN None ELSE FirstNode(split.matches)

\* the node found (or None), or the exception raised
Found(node) == [exc |-> "", node |-> node]

_resolve_symbol(self, symbol) ==
    LET split == split_csymbol_namespaces(self.transformer, symbol)
    IN IF split.exc = "ValueError" THEN Found(None)
       ELSE LET node == FirstBySymbol(split.matches, symbol)
            IN IF node # None THEN Found(node)
               \* "if not node" reads a local that no iteration has assigned
               ELSE IF split.matches = <<>>
               THEN [exc |-> "UnboundLocalError", node |-> None]
               ELSE Found(FirstNode(split.matches))

(***************************************************************************)
(* Page identifiers and cross-references.                                  *)
(***************************************************************************)
\* make_page_id of a node that is not a namespace: its parent, if any, is a
\* type without a parent
make_page_id(node) ==
    IF node.parent = None THEN node.namespace \o "." \o node.name
    ELSE LET parent == node.parent[1]
             sep == IF node.kind \in {"Property", "Signal", "VFunction", "Field"}
                    THEN "-" ELSE "."
         IN parent.namespace \o "." \o parent.name \o sep \o node.name

\* make_gtkdoc_id of a type without a parent: class_style, no separator
make_gtkdoc_id(node) == node.namespace \o node.name

\* DocFormatterC.format_function_name
format_function_name(func) ==
    IF func.kind = "Function" THEN func.symbol ELSE func.name

format_page_name(node) ==
    IF node.kind = "Function" THEN format_function_name(node)
    ELSE IF node.kind = "Property" /\ node.parent # None
    THEN node.parent[1].namespace \o "." \o node.parent[1].name \o ":" \o node.name
    ELSE IF node.kind = "Signal" /\ node.parent # None
    THEN node.parent[1].namespace \o "." \o node.parent[1].name \o "::" \o node.name
    ELSE make_page_id(node)

\* xmlwriter.build_xml_tag(tag_name, [(attr, value)], data)
build_xml_tag(tag_name, attr, value, data) ==
    "<" \o tag_name \o " " \o attr \o "=\"" \o escape(value) \o "\""
    \o (IF data = None THEN "/>"
        ELSE ">" \o escape(data[1]) \o "</" \o tag_name \o ">")

\* mutant of format_internal_xref: the plural "s" goes to the target as well
format_internal_xref_PluralTarget(node, linkname, pluralize) ==
    IF linkname # None THEN build_xml_tag("link", "xref", make_page_id(node), linkname)
    ELSE IF ~pluralize THEN build_xml_tag("link", "xref", make_page_id(node), None)
    ELSE build_xml_tag("link", "xref", make_page_id(node) \o "s",
                       Some(make_page_id(node) \o "s"))

format_internal_xref(node, linkname, pluralize) ==
    IF linkname # None THEN build_xml_tag("link", "xref", make_page_id(node), linkname)
    ELSE IF ~pluralize THEN build_xml_tag("link", "xref", make_page_id(node), None)
    ELSE build_xml_tag("link", "xref", make_page_id(node),
                       Some(make_page_id(node) \o "s"))

\* node.namespace, the namespace object
NamespaceOf(transformer, node) ==
    LET nss == transformer.namespaces
    IN nss[CHOOSE i \in 1..Len(nss) : nss[i].name = node.namespace]

DecimalDigits == {"0", "1", "2", "3", "4", "5", "6", "7", "8", "9"}

IsNumber(s) == s # "" /\ \A i \in 0..(Len(s) - 1) : CharAt(s, i) \in DecimalDigits

\* re.sub(r'\-[0-9]+\.[0-9]+$', '', package)
StripVersion(package) ==
    LET cuts == {i \in 0..(Len(package) - 1) :
                    /\ CharAt(package, i) = "-"
                    /\ \E j \in (i + 1)..(Len(package) - 1) :
                        /\ CharAt(package, j) = "."
                        /\ IsNumber(Slice(package, i + 1, j))
                        /\ IsNumber(Slice(package, j + 1, Len(package)))}
    IN IF cuts = {} THEN package
       ELSE Slice(package, 0, CHOOSE i \in cuts : \A k \in cuts : i <= k)

\* a reference is (dir_, online_reference, symbol_map); (None, None) is none
NoReference == [dir |-> None, online |-> None, symbols |-> <<>>]
Reference(dir, online, symbols) == [dir |-> Some(dir), online |-> online,
                                    symbols |-> symbols]

\* DocFormatter._find_reference: the loop over ns.exported_packages
RECURSIVE FindReference(_, _)
FindReference(reference_map, packages) ==
    IF packages = <<>> THEN [ref |-> NoReference, exact |-> FALSE]
    ELSE IF Head(packages) \in DOMAIN reference_map
    THEN [ref |-> reference_map[Head(packages)], exact |-> TRUE]
    ELSE IF StripVersion(Head(packages)) \in DOMAIN reference_map
    THEN [ref |-> reference_map[StripVersion(Head(packages))], exact |-> FALSE]
    ELSE FindReference(reference_map, Tail(packages))

_find_reference(self, ns) == FindReference(self.reference_map, ns.exported_packages)

InSeq(x, seq) == \E i \in 1..Len(seq) : seq[i] = x

\* message.warn(text): the warning is appended to the messages of the run
Warn(self, message, about) ==
    [self EXCEPT !.warnings = Append(@, [text |-> message, about |-> about])]

\* reference.split("/", 1)[1]: None stands for the IndexError
AfterSlash(s) ==
    LET I == {i \in 0..(Len(s) - 1) : CharAt(s, i) = "/"}
    IN IF I = {} THEN None
       ELSE Some(Slice(s, (CHOOSE i \in I : \A k \in I : i <= k) + 1, Len(s)))

\* '%s' % value for a value that may be None
Str(value) == IF value = None THEN "None" ELSE value[1]

\* mutant of format_gtk_doc_attributes' warning: the warned list is not read
WarningFor_Always(self, ns, found) ==
    IF found.ref.dir = None THEN "No reference found"
    ELSE IF self.online /\ found.ref.online = None
    THEN "No online reference found"
    ELSE IF ~found.exact THEN "Using an approximate match"
    ELSE ""

\* format_gtk_doc_attributes, lines 760-771: the warning to emit, "" for none
WarningFor(self, ns, found) ==
    LET fresh == ~InSeq(ns.name, self.warned)
    IN IF found.ref.dir = None /\ fresh THEN "No reference found"
       ELSE IF self.online /\ found.ref.online = None /\ fresh
       THEN "No online reference found"
       ELSE IF ~found.exact /\ fresh THEN "Using an approximate match"
       ELSE ""

\* lines 760-771: the warning is emitted and the namespace remembered
Warned(self, ns, warning) ==
    IF warning = "" THEN self
    ELSE [Warn(self, warning, ns.name) EXCEPT !.warned = Append(@, ns.name)]

\* lines 773-782: the entry of the index for the identifier, "" when there
\* is none, None for the IndexError of split("/", 1)[1]
ReferenceOf(ref, gtk_doc_identifier) ==
    IF ref.dir # None /\ gtk_doc_identifier \in DOMAIN ref.symbols
    THEN AfterSlash(ref.symbols[gtk_doc_identifier]) ELSE Some("")

\* lines 784-789: the href, online or in the directory of the reference
Href(self, ref, reference, node) ==
    IF reference = None THEN Raises(self, "IndexError")
    ELSE IF self.online /\ reference[1] # ""
    THEN Returns(self, Str(ref.online) \o "/" \o reference[1])
    ELSE IF reference[1] # ""
    THEN Returns(self, ref.dir[1] \o "/" \o reference[1])
    ELSE Returns(self, "FIXME broken link to " \o node.name)

\* mutant of AttributesFrom: a namespace that was warned about is not looked
\* up again
AttributesFrom_SkipWarned(self, node, ns, found) ==
    IF InSeq(ns.name, self.warned)
    THEN Returns(self, "FIXME broken link to " \o node.name)
    ELSE Href(Warned(self, ns, WarningFor(self, ns, found)), found.ref,
              ReferenceOf(found.ref, make_gtkdoc_id(node)), node)

\* format_gtk_doc_attributes once _find_reference has returned
AttributesFrom(self, node, ns, found) ==
    Href(Warned(self, ns, WarningFor(self, ns, found)), found.ref,
         ReferenceOf(found.ref, make_gtkdoc_id(node)), node)

\* the href attribute of a node of another namespace, from the gtk-doc index
format_gtk_doc_attributes(self, node) ==
    AttributesFrom(self, node, NamespaceOf(self.transformer, node),
                   _find_reference(self, NamespaceOf(self.transformer, node)))

\* lines 800-806: the link element around the data, with the href attribute
LinkTag(attrs, data) ==
    IF attrs.exc # "" THEN attrs
    ELSE Returns(attrs.self, build_xml_tag("link", "href", attrs.ret, data))

format_external_xref(self, node, linkname, pluralize) ==
    LET ns == NamespaceOf(self.transformer, node)
    IN LinkTag(IF self.link_to_gtk_doc THEN format_gtk_doc_attributes(self, node)
               ELSE Returns(self, "../" \o ns.name \o "-" \o ns.version \o "/"
                                  \o make_page_id(node) \o ".html"),
               IF linkname # None THEN linkname
               ELSE IF ~pluralize THEN Some(format_page_name(node))
               ELSE Some(format_page_name(node) \o "s"))

\* format_xref of None or of a node that is not an enumeration member
format_xref(self, node, pluralize, linkname) ==
    IF node = None THEN Returns(self, build_xml_tag("link", "xref", "index", linkname))
    ELSE IF node[1].namespace = self.transformer.namespace.name
    THEN Returns(self, format_internal_xref(node[1], linkname, pluralize))
    ELSE format_external_xref(self, node[1], linkname, pluralize)

(***************************************************************************)
(* The handlers of the references.                                         *)
(***************************************************************************)
\* DocFormatter._find_thing over the names of a list: is the name in it
_find_thing(list_, name) == InSeq(name, list_)

_process_property(self, match, props) ==
    LET type_node == _resolve_type(self, props["type_name"][1])
        name == props["property_name"][1]
    IN IF type_node = None THEN Returns(self, match)
       ELSE IF ~HasAttr(type_node[1], "properties") THEN Returns(self, match)
       ELSE IF ~_find_thing(type_node[1].properties, name) THEN Returns(self, match)
       ELSE format_xref(self, Some(Child("Property", type_node[1], name)),
                        FALSE, Some(name))

_process_signal(self, match, props) ==
    LET type_node == _resolve_type(self, props["type_name"][1])
        name == props["signal_name"][1]
    IN IF type_node = None THEN Returns(self, match)
       ELSE IF ~HasAttr(type_node[1], "signals") THEN Returns(self, match)
       ELSE IF ~_find_thing(type_node[1].signals, name) THEN Returns(self, match)
       ELSE format_xref(self, Some(Child("Signal", type_node[1], name)),
                        FALSE, None)

_process_type_name(self, match, props) ==
    LET ident == props["type_name"][1]
        type_ == _resolve_type(self, ident)
    IN IF type_ = None
       THEN LET singularized == RStrip(ident, "s")    \* Try to remove plural
                singular == _resolve_type(self, singularized)
            IN IF singular = None THEN Returns(self, match)
               ELSE format_xref(self, singular, TRUE, None)
       ELSE format_xref(self, type_, FALSE, None)

\* DocFormatterC.fundamentals
fundamentals == [k \in {"TRUE", "FALSE", "NULL"} |-> k]

_process_enum_value(self, match, props) ==
    LET member_name == props["member_name"][1]
        enum_value == _resolve_symbol(self, member_name)
    IN IF member_name \in DOMAIN fundamentals
       THEN Returns(self, "<code>" \o fundamentals[member_name] \o "</code>")
       ELSE IF enum_value.exc # "" THEN Raises(self, enum_value.exc)
       ELSE IF enum_value.node # None
       THEN format_xref(self, enum_value.node, FALSE, None)
       ELSE Returns(self, match)

\* format_parameter_name of a parameter that is not variadic
format_parameter_name(node, parameter) == parameter

\* node is the declaration format was called for (self.node), None if none
_process_parameter(self, match, props) ==
    LET node == self.node
        name == props["param_name"][1]
    IN IF node = None THEN Returns(self, match)                 \* AttributeError
       ELSE IF ~HasAttr(node[1], "get_parameter") THEN Returns(self, match)
       ELSE IF ~InSeq(name, node[1].parameters) THEN Returns(self, match)  \* ValueError
       ELSE Returns(self, "<code>" \o format_parameter_name(node[1], name)
                          \o "</code>")

_process_function_call(self, match, props) ==
    LET func == _resolve_symbol(self, props["symbol_name"][1])
    IN IF func.exc # "" THEN Raises(self, func.exc)
       ELSE IF func.node = None THEN Returns(self, match)
       ELSE format_xref(self, func.node, FALSE, None)

(***************************************************************************)
(* Included files.  The file system holds a few text files; a path that is *)
(* not in Files cannot be opened.                                          *)
(***************************************************************************)
IncludeDirectories == <<"d", "e">>

Files ==
    [path \in {"f", "d/f", "d/g", "e/g", "e/l"} |->
        CASE path = "f" -> "# t\n\n]|"
          [] path = "d/f" -> "x"
          [] path = "d/g" -> "|["
          [] path = "e/g" -> "x"
          [] path = "e/l" -> "#Tx"]

\* str.strip(): white space is removed at both ends
RECURSIVE StripBlank(_)
StripBlank(s) ==
    IF s # "" /\ CharAt(s, 0) \in Blank THEN StripBlank(Slice(s, 1, Len(s)))
    ELSE IF s # "" /\ CharAt(s, Len(s) - 1) \in Blank
    THEN StripBlank(Slice(s, 0, Len(s) - 1))
    ELSE s

\* os.path.join(dir_, filename) for a relative filename
PathJoin(dir_, filename) == dir_ \o "/" \o filename

\* open(path, 'r'): the call is logged; f is the path opened, None on IOError
Open(opens, path) ==
    [f |-> IF path \in DOMAIN Files THEN Some(path) ELSE None,
     opens |-> Append(opens, path)]

\* mutant of OpenIn: no break, the loop goes on after a success
RECURSIVE OpenIn_NoBreak(_, _, _)
OpenIn_NoBreak(dirs, filename, opens) ==
    IF dirs = <<>> THEN [f |-> None, opens |-> opens]
    ELSE LET o == Open(opens, PathJoin(Head(dirs), filename))
             rest == OpenIn_NoBreak(Tail(dirs), filename, o.opens)
         IN IF rest.f # None THEN rest ELSE [f |-> o.f, opens |-> rest.opens]

\* for dir_ in self._include_directories: try open, break on success
RECURSIVE OpenIn(_, _, _)
OpenIn(dirs, filename, opens) ==
    IF dirs = <<>> THEN [f |-> None, opens |-> opens]
    ELSE LET o == Open(opens, PathJoin(Head(dirs), filename))
         IN IF o.f # None THEN o ELSE OpenIn(Tail(dirs), filename, o.opens)

RECURSIVE _process_token(_, _), ProcessTokens(_, _, _)

\* DocFormatter.format_inline: every token of para goes through
\* _process_token, the strings returned are joined
format_inline(self, para) ==
    ProcessTokens(self, Scan(DocstringScanner, para), "")

\* mutant of _process_include: the contents are never scanned
_process_include_NoScan(self, match, props) ==
    LET filename == StripBlank(props["include_name"][1])
        direct == Open(self.opens, filename)
        o == IF direct.f # None THEN direct
             ELSE OpenIn(self.include_directories, filename, direct.opens)
        self1 == [self EXCEPT !.opens = o.opens]
    IN IF o.f # None
       THEN Returns(self1, _resolve_implicit_links(Files[o.f[1]]))
       ELSE Returns(Warn(self1, "Could not find file", props["include_name"][1]),
                    match)

\* mutant of _process_include: a file that is not found goes unnoticed
_process_include_Silent(self, match, props) ==
    LET filename == StripBlank(props["include_name"][1])
        direct == Open(self.opens, filename)
        o == IF direct.f # None THEN direct
             ELSE OpenIn(self.include_directories, filename, direct.opens)
        self1 == [self EXCEPT !.opens = o.opens]
    IN IF o.f # None
       THEN LET contents == Files[o.f[1]]
            IN IF self.processing_code
               THEN Returns(self1, _resolve_implicit_links(contents))
               ELSE format_inline(self1, contents)
       ELSE Returns(self1, match)

_process_include(self, match, props) ==
    LET filename == StripBlank(props["include_name"][1])
        direct == Open(self.opens, filename)
        o == IF direct.f # None THEN direct
             ELSE OpenIn(self.include_directories, filename, direct.opens)
        self1 == [self EXCEPT !.opens = o.opens]
    IN IF o.f # None
       THEN LET contents == Files[o.f[1]]
            IN IF self.processing_code
               THEN Returns(self1, _resolve_implicit_links(contents))
               ELSE format_inline(self1, contents)
       ELSE Returns(Warn(self1, "Could not find file", props["include_name"][1]),
                    match)

\* DocFormatter._process_token: the dispatch on the token's kind
_process_token(self, tok) ==
    CASE tok.kind = "other" -> _process_other(self, tok.match, tok.props)
      [] tok.kind = "code_start" -> _process_code_start(self, tok.match, tok.props)
      [] tok.kind = "code_start_with_language" ->
            _process_code_start_with_language(self, tok.match, tok.props)
      [] tok.kind = "code_end" -> _process_code_end(self, tok.match, tok.props)
      [] tok.kind = "new_line" -> _process_new_line(self, tok.match, tok.props)
      [] tok.kind = "new_paragraph" ->
            _process_new_paragraph(self, tok.match, tok.props)
      [] tok.kind = "note" -> _process_note(self, tok.match, tok.props)
      [] tok.kind = "heading" -> _process_heading(self, tok.match, tok.props)
      [] tok.kind = "type_name" -> _process_type_name(self, tok.match, tok.props)
      [] tok.kind = "property" -> _process_property(self, tok.match, tok.props)
      [] tok.kind = "signal" -> _process_signal(self, tok.match, tok.props)
      [] tok.kind = "enum_value" -> _process_enum_value(self, tok.match, tok.props)
      [] tok.kind = "parameter" -> _process_parameter(self, tok.match, tok.props)
      [] tok.kind = "function_call" ->
            _process_function_call(self, tok.match, tok.props)
      [] tok.kind = "include" -> _process_include(self, tok.match, tok.props)

\* words = [self._process_token(node, tok) for tok in tokens]; ''.join(words)
ProcessTokens(self, toks, acc) ==
    IF toks = <<>> THEN Returns(self, acc)
    ELSE LET r == _process_token(self, Head(toks))
         IN IF r.exc # "" THEN r
            ELSE ProcessTokens(r.self, Tail(toks), acc \o r.ret)

RECURSIVE Join(_)
Join(words) == IF words = <<>> THEN "" ELSE Head(words) \o Join(Tail(words))

\* mutant of CloseAll: "if" for "while", one section is closed
CloseAll_Once(result, opened_sections) ==
    IF opened_sections > 0
    THEN [result |-> result \o "</section>", opened_sections |-> opened_sections - 1]
    ELSE [result |-> result, opened_sections |-> opened_sections]

\* mutant of CloseAll: ">=" for ">", one close too many
RECURSIVE CloseAll_PastZero(_, _)
CloseAll_PastZero(result, opened_sections) ==
    IF opened_sections >= 0
    THEN CloseAll_PastZero(result \o "</section>", opened_sections - 1)
    ELSE [result |-> result, opened_sections |-> opened_sections]

\* while self._opened_sections > 0: close one section
RECURSIVE CloseAll(_, _)
CloseAll(result, opened_sections) ==
    IF opened_sections > 0
    THEN CloseAll(result \o "</section>", opened_sections - 1)
    ELSE [result |-> result, opened_sections |-> opened_sections]

\* mutant of FormatTail: the sections are closed inside the paragraph
FormatTail_SectionsFirst(result, inline, processing_code, opened_sections) ==
    LET closed == CloseAll(result \o inline, opened_sections)
    IN [result |-> IF ~processing_code THEN closed.result \o "</p>"
                   ELSE closed.result,
        opened_sections |-> closed.opened_sections]

\* DocFormatter.format from the return of format_inline on: the wrapper's
\* closing tag, then the sections left open
FormatTail(result, inline, processing_code, opened_sections) ==
    LET wrapped == IF ~processing_code THEN result \o inline \o "</p>"
                   ELSE result \o inline
    IN CloseAll(wrapped, opened_sections)

(***************************************************************************)
(* The documents handed to format: at most MaxDocPieces pieces of one      *)
(* family of pieces (headings, fences, types, includes), or at most        *)
(* MaxXrefPieces references.                                               *)
(***************************************************************************)
HeadingPieces == {"x", "\n", "# t", "### t", "#", "|[", "]|"}

FencePieces == {"x", "\n", "# t", "|[", "]|", "<!-- language=\"C\" -->",
                "<!-- language=\"x\" -->", "\n>n\n"}

TypePieces == {"x", " ", "#Tx", "#Txs", "#Txss", "#Tyss"}

IncludePieces == {"x", "|[", "{{f}}", "{{ g }}", "{{l}}", "{{n}}"}

\* references that resolve and references that do not
XrefPieces == {"#Tx:a", "#Tx:c", "#Tf:a", "#Tx::e", "#Tx::a", "#Gy", "%t_f",
               "%x", "@a", "@c", "t_f()", "x()"}

Docs == TextsOf(HeadingPieces, MaxDocPieces) \cup TextsOf(FencePieces, MaxDocPieces)
        \cup TextsOf(TypePieces, MaxDocPieces)
        \cup TextsOf(IncludePieces, MaxDocPieces)
        \cup TextsOf(XrefPieces, MaxXrefPieces)

(***************************************************************************)
(* State of the formatter and of the format call in progress.              *)
(***************************************************************************)
VARIABLES
    _processing_code,   \* self._processing_code
    _opened_sections,   \* self._opened_sections
    pc,                 \* "idle", "inline" (in format_inline), "returned", "raised"
    doc,                \* the doc argument of format (None between calls)
    processing_code,    \* the local of format, line 391
    result,             \* the local of format; at "returned", its return value
    tokens,             \* the tokens of the document
    words,              \* format_inline: the strings the handlers returned
    exc,                \* the exception that ended the run, "" if none
    closed_at_end,      \* sections format closed after the last token (history)
    node,               \* the node argument of format (None between calls)
    online,             \* self.online
    link_to_gtk_doc,    \* self.link_to_gtk_doc
    _reference_map,     \* self._reference_map
    _warned_external_references,   \* self._warned_external_references
    warnings,           \* the warnings message.warn was given (history)
    opens,              \* the paths open() was called with (history)
    _transformer        \* self._transformer

fmtVars == <<_processing_code, _opened_sections, pc, doc, processing_code,
             result, tokens, words, exc, closed_at_end, node, online,
             link_to_gtk_doc, _reference_map, _warned_external_references,
             warnings, opens, _transformer>>

\* what __init__ was given: the options and the transformer stay
configVars == <<online, link_to_gtk_doc, _reference_map, _transformer>>

\* the formatter, with the transformer it was built on and the node argument
\* of the call in progress
SelfWith(transformer) ==
    [processing_code |-> _processing_code,
     opened_sections |-> _opened_sections,
     transformer |-> transformer,
     node |-> node,
     online |-> online,
     link_to_gtk_doc |-> link_to_gtk_doc,
     reference_map |-> _reference_map,
     include_directories |-> IncludeDirectories,
     warned |-> _warned_external_references,
     warnings |-> warnings,
     opens |-> opens]

Self == SelfWith(_transformer)

\* DocFormatter.__init__, lines 316 and 325
FmtInit ==
    /\ _processing_code = FALSE
    /\ _opened_sections = 0
    /\ pc = "idle"
    /\ doc = None
    /\ processing_code = FALSE
    /\ result = ""
    /\ tokens = <<>>
    /\ words = <<>>
    /\ exc = ""
    /\ closed_at_end = 0
    /\ node = None
    /\ _warned_external_references = <<>>
    /\ warnings = <<>>
    /\ opens = <<>>

\* docmain's defaults: no link to gtk-doc, no online links; no gtk-doc index
DefaultOptions ==
    /\ online = FALSE
    /\ link_to_gtk_doc = FALSE
    /\ _reference_map = <<>>

\* the declarations format is called for: a function, a class
Owners == {Some(Function(NamespaceName, "f", "t_f", <<"a">>)),
           Some(Class(NamespaceName, "x", <<"a">>, <<"e">>))}

\* the declaration matters to a document that refers to a parameter
OwnersOf(d) ==
    IF \E i \in 0..(Len(d) - 1) : CharAt(d, i) = "@" THEN Owners
    ELSE {Some(Function(NamespaceName, "f", "t_f", <<"a">>))}

\* format(node, doc), lines 387-395, up to the call of scan in format_inline
Format ==
    /\ pc = "idle"
    /\ \E d \in Docs :
        /\ doc' = Some(d)
        /\ tokens' = Scan(DocstringScanner, d)
        /\ node' \in OwnersOf(d)
    /\ processing_code' = _processing_code
    /\ result' = IF ~_processing_code THEN "<p>" ELSE ""
    /\ words' = <<>>
    /\ pc' = "inline"
    /\ UNCHANGED <<_processing_code, _opened_sections, exc, closed_at_end,
                   configVars, _warned_external_references, warnings, opens>>

\* format(node, None), lines 387-388
FormatNone ==
    /\ pc = "idle"
    /\ doc' = None
    /\ result' = ""
    /\ pc' = "returned"
    /\ UNCHANGED <<_processing_code, _opened_sections, processing_code, tokens,
                   words, exc, closed_at_end, node, configVars,
                   _warned_external_references, warnings, opens>>

NextToken == tokens[Len(words) + 1]

\* format_inline, line 682: the next token goes through _process_token, which
\* calls the handler of the token's kind; r is what the handler returns.  The
\* state the handler changed before it raised stays changed.
Process(kind, r) ==
    /\ pc = "inline"
    /\ Len(words) < Len(tokens)
    /\ NextToken.kind = kind
    /\ _processing_code' = r.self.processing_code
    /\ _opened_sections' = r.self.opened_sections
    /\ _warned_external_references' = r.self.warned
    /\ warnings' = r.self.warnings
    /\ opens' = r.self.opens
    /\ IF r.exc # ""
       THEN /\ pc' = "raised"
            /\ exc' = r.exc
            /\ UNCHANGED words
       ELSE /\ words' = Append(words, r.ret)
            /\ UNCHANGED <<pc, exc>>
    /\ UNCHANGED <<doc, processing_code, result, tokens, closed_at_end, node,
                   configVars>>

ProcessOther ==
    Process("other", _process_other(Self, NextToken.match, NextToken.props))

ProcessCodeStart ==
    Process("code_start", _process_code_start(Self, NextToken.match, NextToken.props))

ProcessCodeStartWithLanguage ==
    Process("code_start_with_language", _process_code_start_with_language(Self, NextToken.match, NextToken.props))

ProcessCodeEnd ==
    Process("code_end", _process_code_end(Self, NextToken.match, NextToken.props))

ProcessNewLine ==
    Process("new_line", _process_new_line(Self, NextToken.match, NextToken.props))

ProcessNewParagraph ==
    Process("new_paragraph", _process_new_paragraph(Self, NextToken.match, NextToken.props))

ProcessNote ==
    Process("note", _process_note(Self, NextToken.match, NextToken.props))

ProcessHeading ==
    Process("heading", _process_heading(Self, NextToken.match, NextToken.props))

ProcessTypeName ==
    Process("type_name", _process_type_name(Self, NextToken.match, NextToken.props))

ProcessProperty ==
    Process("property", _process_property(Self, NextToken.match, NextToken.props))

ProcessSignal ==
    Process("signal", _process_signal(Self, NextToken.match, NextToken.props))

ProcessEnumValue ==
    Process("enum_value", _process_enum_value(Self, NextToken.match, NextToken.props))

ProcessParameter ==
    Process("parameter", _process_parameter(Self, NextToken.match, NextToken.props))

ProcessFunctionCall ==
    Process("function_call", _process_function_call(Self, NextToken.match, NextToken.props))

ProcessInclude ==
    Process("include", _process_include(Self, NextToken.match, NextToken.props))

\* format, lines 395-402: format_inline returns, the result is completed
FormatReturn ==
    /\ pc = "inline"
    /\ Len(words) = Len(tokens)
    /\ LET tail == FormatTail(result, Join(words), processing_code,
                              _opened_sections)
       IN /\ result' = tail.result
          /\ _opened_sections' = tail.opened_sections
    /\ closed_at_end' = _opened_sections
    /\ pc' = "returned"
    /\ UNCHANGED <<_processing_code, doc, processing_code, tokens, words, exc,
                   node, configVars, _warned_external_references, warnings,
                   opens>>

\* the caller takes the returned string; the locals of the call are gone
NextDocument ==
    /\ pc = "returned"
    /\ pc' = "idle"
    /\ doc' = None
    /\ processing_code' = FALSE
    /\ result' = ""
    /\ tokens' = <<>>
    /\ words' = <<>>
    /\ closed_at_end' = 0
    /\ node' = None
    /\ warnings' = <<>>
    /\ opens' = <<>>
    /\ UNCHANGED <<_processing_code, _opened_sections, exc, configVars,
                   _warned_external_references>>

(***************************************************************************)
(* Specifications.  Spec is the formatter rendering documents one after    *)
(* another; SpecScan is one scan() generator on its own.  The part a       *)
(* specification does not run stays in its initial, inactive state.        *)
(***************************************************************************)
(***************************************************************************)
(* A call of one function of the formatter, on arguments of its own.       *)
(***************************************************************************)
VARIABLES
    call,        \* the function called, "" when none was
    call_args,   \* its arguments
    call_ret,    \* what it returned or raised
    call_log     \* the namespaces of the nodes of the calls so far (history)

callVars == <<call, call_args, call_ret, call_log>>

CallOff ==
    /\ call = ""
    /\ call_args = <<>>
    /\ call_ret = <<>>
    /\ call_log = <<>>

vars == <<scanVars, fmtVars, callVars>>

ScanOff ==
    /\ scanner = <<>>
    /\ text = ""
    /\ pos = 0
    /\ yielded = <<>>
    /\ scan_pc = "off"
    /\ stalls = 0

Init ==
    /\ FmtInit
    /\ DefaultOptions
    /\ _transformer \in Transformers
    /\ ScanOff
    /\ CallOff

Next ==
    \/ Format /\ UNCHANGED <<scanVars, callVars>>
    \/ FormatNone /\ UNCHANGED <<scanVars, callVars>>
    \/ ProcessOther /\ UNCHANGED <<scanVars, callVars>>
    \/ ProcessCodeStart /\ UNCHANGED <<scanVars, callVars>>
    \/ ProcessCodeStartWithLanguage /\ UNCHANGED <<scanVars, callVars>>
    \/ ProcessCodeEnd /\ UNCHANGED <<scanVars, callVars>>
    \/ ProcessNewLine /\ UNCHANGED <<scanVars, callVars>>
    \/ ProcessNewParagraph /\ UNCHANGED <<scanVars, callVars>>
    \/ ProcessNote /\ UNCHANGED <<scanVars, callVars>>
    \/ ProcessHeading /\ UNCHANGED <<scanVars, callVars>>
    \/ ProcessTypeName /\ UNCHANGED <<scanVars, callVars>>
    \/ ProcessProperty /\ UNCHANGED <<scanVars, callVars>>
    \/ ProcessSignal /\ UNCHANGED <<scanVars, callVars>>
    \/ ProcessEnumValue /\ UNCHANGED <<scanVars, callVars>>
    \/ ProcessParameter /\ UNCHANGED <<scanVars, callVars>>
    \/ ProcessFunctionCall /\ UNCHANGED <<scanVars, callVars>>
    \/ ProcessInclude /\ UNCHANGED <<scanVars, callVars>>
    \/ FormatReturn /\ UNCHANGED <<scanVars, callVars>>
    \/ NextDocument /\ UNCHANGED <<scanVars, callVars>>

Spec == Init /\ [][Next]_vars

SpecScanInit ==
    /\ ScanInit
    /\ FmtInit
    /\ DefaultOptions
    /\ _transformer = Transformer(<<NamespaceT, NamespaceG>>, "ValueError")
    /\ CallOff

SpecScanNext ==
    \/ ScanMatch /\ UNCHANGED <<fmtVars, callVars>>
    \/ ScanBreak /\ UNCHANGED <<fmtVars, callVars>>

SpecScan == SpecScanInit /\ [][SpecScanNext]_vars

(***************************************************************************)
(* The resolvers, called on transformers of two namespaces A and B that    *)
(* share their prefixes (G for types, g for symbols), so that an           *)
(* identifier has both as candidates, A first.  Each namespace holds none, *)
(* one or two of: a function f of symbol g_f, a constant f, a class f, a   *)
(* function h of symbol g_f.                                               *)
(***************************************************************************)
NodeLists(ns) ==
    {<<>>,
     <<Function(ns, "f", "g_f", <<>>)>>,
     <<Constant(ns, "f")>>,
     <<Class(ns, "f", <<>>, <<>>)>>,
     <<Function(ns, "h", "g_f", <<>>)>>,
     <<Constant(ns, "f"), Function(ns, "h", "g_f", <<>>)>>}

ResolveTransformers ==
    {Transformer(<<Namespace("A", "1", "G", "g", <<"a-1.0">>, a),
                   Namespace("B", "1", "G", "g", <<"b-1.0">>, b)>>, u) :
        a \in NodeLists("A"), b \in NodeLists("B"), u \in OnUnknown}

\* identifiers and symbols, of the two namespaces and of none
Idents == {"Gf", "Gh", "g_f", "g_h", "f", "x"}

SpecResolveInit ==
    /\ FmtInit
    /\ DefaultOptions
    /\ _transformer \in ResolveTransformers
    /\ ScanOff
    /\ CallOff

ResolveType ==
    /\ call = ""
    /\ \E ident \in Idents :
        /\ call' = "_resolve_type"
        /\ call_args' = ident
        /\ call_ret' = Found(_resolve_type(Self, ident))
    /\ UNCHANGED call_log

ResolveSymbol ==
    /\ call = ""
    /\ \E symbol \in Idents :
        /\ call' = "_resolve_symbol"
        /\ call_args' = symbol
        /\ call_ret' = _resolve_symbol(Self, symbol)
    /\ UNCHANGED call_log

SpecResolveNext ==
    \/ ResolveType /\ UNCHANGED <<scanVars, fmtVars>>
    \/ ResolveSymbol /\ UNCHANGED <<scanVars, fmtVars>>

SpecResolve == SpecResolveInit /\ [][SpecResolveNext]_vars

(***************************************************************************)
(* Cross-references rendered one after the other by one formatter, built   *)
(* with any of the options and on one of a few gtk-doc indexes.  T is the  *)
(* namespace being documented, G and H are namespaces it includes; the     *)
(* nodes rendered are classes and a function (for a constant or a member   *)
(* the identifier looked up in the index is another one, lines 776-777).   *)
(***************************************************************************)
NamespaceH ==
    Namespace("H", "3", "H", "h", <<"h">>, <<Class("H", "z", <<>>, <<>>)>>)

XrefNodes == {Class("T", "x", <<"a">>, <<"e">>),
              Function("T", "f", "t_f", <<"a">>),
              Class("G", "y", <<>>, <<>>),
              Class("H", "z", <<>>, <<>>)}

\* _fill_reference_map: the packages documented under /usr/share/gtk-doc.
\* 1: none.  2: g-2.0, with an online reference.  3: g (no version, no
\* online reference) and h, whose entry for Hz has no "/".  4: g-2.0
\* without an online reference and without an entry for Gy.
ReferenceMap(k) ==
    CASE k = 1 -> <<>>
      [] k = 2 -> [p \in {"g-2.0"} |->
                     Reference("r", Some("o"), [id \in {"Gy"} |-> "g/Gy.html"])]
      [] k = 3 -> [p \in {"g", "h"} |->
                     IF p = "g"
                     THEN Reference("r", None, [id \in {"Gy"} |-> "g/Gy.html"])
                     ELSE Reference("s", Some("o"), [id \in {"Hz"} |-> "Hz.html"])]
      [] k = 4 -> [p \in {"g-2.0"} |-> Reference("r", None, <<>>)]

ReferenceMaps == 1..4

SpecXrefInit ==
    /\ FmtInit
    /\ online \in BOOLEAN
    /\ link_to_gtk_doc \in BOOLEAN
    /\ \E k \in ReferenceMaps : _reference_map = ReferenceMap(k)
    /\ _transformer = Transformer(<<NamespaceT, NamespaceG, NamespaceH>>, "ValueError")
    /\ ScanOff
    /\ CallOff

\* one call of a function that renders node; r is what it returns
Render(name, args, r) ==
    /\ Len(call_log) < MaxCalls
    /\ call' = name
    /\ call_args' = args
    /\ call_ret' = [ret |-> r.ret, exc |-> r.exc]
    /\ call_log' = Append(call_log, args.node.namespace)
    /\ _warned_external_references' = r.self.warned
    /\ warnings' = r.self.warnings
    /\ UNCHANGED <<_processing_code, _opened_sections, pc, doc, processing_code,
                   result, tokens, words, exc, closed_at_end, node, opens,
                   configVars>>

\* format_xref(node, pluralize)
FormatXref ==
    \E n \in XrefNodes, pluralize \in BOOLEAN :
        Render("format_xref", [node |-> n, pluralize |-> pluralize],
               format_xref(Self, Some(n), pluralize, None))

\* format_gtk_doc_attributes(node, attrdict) for a node of another namespace
FormatGtkDocAttributes ==
    \E n \in {m \in XrefNodes : m.namespace # NamespaceName} :
        Render("format_gtk_doc_attributes", [node |-> n, pluralize |-> FALSE],
               format_gtk_doc_attributes(Self, n))

SpecXrefNext ==
    \/ FormatXref /\ UNCHANGED scanVars
    \/ FormatGtkDocAttributes /\ UNCHANGED scanVars

SpecXref == SpecXrefInit /\ [][SpecXrefNext]_vars

(***************************************************************************)
(* escape, called on a text and again on what it returned.                 *)
(***************************************************************************)
EscapePieces == {"x", ";", "<", ">", "&"}

EscapeTexts == TextsOf(EscapePieces, MaxEscapePieces)

SpecEscapeInit ==
    /\ FmtInit
    /\ DefaultOptions
    /\ _transformer = Transformer(<<NamespaceT, NamespaceG>>, "ValueError")
    /\ ScanOff
    /\ CallOff

\* escape(text)
Escape ==
    /\ call = ""
    /\ \E s \in EscapeTexts :
        /\ call' = "escape"
        /\ call_args' = s
        /\ call_ret' = escape(s)
    /\ UNCHANGED call_log

\* escape of the text the call before returned
EscapeAgain ==
    /\ call = "escape"
    /\ call' = "escape(escape)"
    /\ call_ret' = escape(call_ret)
    /\ UNCHANGED <<call_args, call_log>>

SpecEscapeNext ==
    \/ Escape /\ UNCHANGED <<scanVars, fmtVars>>
    \/ EscapeAgain /\ UNCHANGED <<scanVars, fmtVars>>

SpecEscape == SpecEscapeInit /\ [][SpecEscapeNext]_vars

(***************************************************************************)
(* _resolve_implicit_links, called on a text by a formatter built with or  *)
(* without resolve_implicit_links.                                         *)
(***************************************************************************)
Separators == {" ", "(", ")"}

\* re.split(" |\(|\)", s): the pieces between the separators, the empty ones
\* included; word is the piece in progress
RECURSIVE Split(_, _)
Split(s, word) ==
    IF s = "" THEN <<word>>
    ELSE IF CharAt(s, 0) \in Separators
    THEN <<word>> \o Split(Slice(s, 1, Len(s)), "")
    ELSE Split(Slice(s, 1, Len(s)), word \o CharAt(s, 0))

\* str.replace(old, new): every occurrence of old, from the left, none
\* overlapping another
RECURSIVE Replace(_, _, _)
Replace(s, old, new) ==
    IF Len(s) < Len(old) THEN s
    ELSE IF StartsWith(s, old) THEN new \o Replace(Slice(s, Len(old), Len(s)), old, new)
    ELSE CharAt(s, 0) \o Replace(Slice(s, 1, Len(s)), old, new)

\* lines 498-503 for one word: the cross-reference that implicit_links gets
\* for it (None when it resolves to nothing), or the exception of
\* _resolve_symbol
ImplicitLinkOf(self, word, type_, symbol) ==
    IF symbol.exc # "" THEN [exc |-> symbol.exc, xref |-> None]
    ELSE IF type_ # None
    THEN [exc |-> "", xref |-> Some(format_xref(self, type_, FALSE, Some(word)).ret)]
    ELSE IF symbol.node # None
    THEN [exc |-> "", xref |-> Some(format_xref(self, symbol.node, FALSE,
                                                Some(word)).ret)]
    ELSE [exc |-> "", xref |-> None]

ImplicitLink(self, word) ==
    ImplicitLinkOf(self, word, _resolve_type(self, word), _resolve_symbol(self, word))

\* the words of the escaped text that the loop of lines 495-503 goes through
WordsOf(escaped) ==
    LET s == Split(escaped, "")
    IN {s[i] : i \in 1..Len(s)} \ {""}

\* the keys of implicit_links once the loop is over
ImplicitKeys(self, match) ==
    {word \in WordsOf(escape(match)) : ImplicitLink(self, word).xref # None}

\* the orders in which a dict of these keys may be gone through
Orders(keys) ==
    {order \in [1..Cardinality(keys) -> keys] :
        \A k \in keys : \E i \in 1..Cardinality(keys) : order[i] = k}

\* for word, xref in implicit_links.iteritems(): match = match.replace(word, xref)
RECURSIVE ReplaceEach(_, _, _)
ReplaceEach(self, escaped, order) ==
    IF order = <<>> THEN escaped
    ELSE ReplaceEach(self,
                     Replace(escaped, Head(order),
                             ImplicitLink(self, Head(order)).xref[1]),
                     Tail(order))

\* DocFormatter._resolve_implicit_links of a formatter built with the option
\* resolve_implicit_links; order is the order of implicit_links.iteritems()
ResolveImplicitLinks(self, resolve_implicit_links, match, order) ==
    IF ~resolve_implicit_links THEN [ret |-> escape(match), exc |-> ""]
    ELSE IF \E word \in WordsOf(escape(match)) : ImplicitLink(self, word).exc # ""
    THEN [ret |-> "", exc |-> "UnboundLocalError"]
    ELSE [ret |-> ReplaceEach(self, escape(match), order), exc |-> ""]

\* words that resolve (a type, a function by its symbol), words that do not,
\* separators and a character that escape changes
ImplicitPieces == {"Tx", "aTx", "t_f", "z", " ", "(", ")", "<"}

ImplicitTexts == TextsOf(ImplicitPieces, MaxImplicitPieces)

SpecImplicitInit ==
    /\ FmtInit
    /\ DefaultOptions
    /\ _transformer \in Transformers
    /\ ScanOff
    /\ CallOff

ImplicitLinks ==
    /\ call = ""
    /\ \E match \in ImplicitTexts, resolve_implicit_links \in BOOLEAN :
        \E order \in Orders(ImplicitKeys(Self, match)) :
            /\ call' = "_resolve_implicit_links"
            /\ call_args' = [match |-> match,
                             resolve_implicit_links |-> resolve_implicit_links]
            /\ call_ret' = ResolveImplicitLinks(Self, resolve_implicit_links,
                                                match, order)
    /\ UNCHANGED call_log

SpecImplicitNext == ImplicitLinks /\ UNCHANGED <<scanVars, fmtVars>>

SpecImplicit == SpecImplicitInit /\ [][SpecImplicitNext]_vars

(***************************************************************************)
(* The sections index: DocFormatter.__init__ on a sections file (or on     *)
(* none), then link_next_doc.  Symbol and Section objects are the elements *)
(* of two heaps, referred to by their position (0 for None); a dict is a   *)
(* function of its keys.                                                   *)
(***************************************************************************)
EmptyDict == [k \in {} |-> 0]

\* d[key] = value
SetItem(d, key, value) == (key :> value) @@ d

\* the loop of Section.__init__ from the symbol at position i on: symbols is
\* the heap of Symbol objects, prev_node the position of the previous one
RECURSIVE SectionSymbols(_, _, _, _, _)
SectionSymbols(titles, i, prev_node, symbols, global_table) ==
    IF i > Len(titles) THEN [symbols |-> symbols, global_table |-> global_table]
    ELSE LET symbol == Len(symbols) + 1
             linked == IF prev_node # 0
                       THEN [symbols EXCEPT ![prev_node].next_ = symbol]
                       ELSE symbols
         IN SectionSymbols(titles, i + 1, symbol,
                           Append(linked, [name |-> titles[i], next_ |-> 0]),
                           SetItem(global_table, titles[i], symbol))

\* the loop of _parse_sections_file from the section at position i on
RECURSIVE ParseSections(_, _, _, _)
ParseSections(root, i, previous_section, index) ==
    IF i > Len(root) THEN index
    ELSE LET section == Len(index.heap) + 1
             built == SectionSymbols(root[i].symbols, 1, 0, index.symbols,
                                     index.global_symbols_table)
             linked == IF previous_section # 0
                       THEN [index.heap EXCEPT ![previous_section].next_section = section]
                       ELSE index.heap
         IN ParseSections(root, i + 1, section,
                [heap |-> Append(linked, [name |-> root[i].title,
                                          next_section |-> 0]),
                 sections |-> Some(SetItem(index.sections[1], root[i].title,
                                           section)),
                 symbols |-> built.symbols,
                 global_symbols_table |-> built.global_table])

\* lines 311-312: the table and the sections of a formatter built on a
\* sections file (None for no file)
_parse_sections_file(sections_file) ==
    IF sections_file = None
    THEN [heap |-> <<>>, sections |-> None, symbols |-> <<>>,
          global_symbols_table |-> EmptyDict]
    ELSE ParseSections(sections_file[1], 1, 0,
                       [heap |-> <<>>, sections |-> Some(EmptyDict),
                        symbols |-> <<>>, global_symbols_table |-> EmptyDict])

\* the page of what an identifier names, '' when it names nothing
PageOf(found) == IF found = None THEN "" ELSE make_page_id(found[1])

format_xref_from_identifier(self, identifier) ==
    LET symbol == _resolve_symbol(self, identifier)
    IN IF symbol.exc # "" THEN [ret |-> "", exc |-> symbol.exc]
       ELSE IF symbol.node # None THEN [ret |-> PageOf(symbol.node), exc |-> ""]
       ELSE [ret |-> PageOf(_resolve_type(self, identifier)), exc |-> ""]

\* result = '<link xref="' + format_xref_from_identifier(name) + '" type="next"/>'
NextLink(xref) ==
    IF xref.exc # "" THEN xref
    ELSE [ret |-> "<link xref=\"" \o xref.ret \o "\" type=\"next\"/>", exc |-> ""]

NoLink == [ret |-> "", exc |-> ""]

\* lines 429-448: the link to the section after the one called title
NextSectionLink(self, index, title) ==
    IF title \notin DOMAIN index.sections[1] THEN NoLink
    ELSE IF index.heap[index.sections[1][title]].next_section = 0 THEN NoLink
    ELSE NextLink(format_xref_from_identifier(self,
            index.heap[index.heap[index.sections[1][title]].next_section].name))

\* DocFormatter.link_next_doc of a formatter whose table and sections are
\* those of index
link_next_doc(self, index, target) ==
    IF target.kind = "Function"
    THEN IF target.symbol \notin DOMAIN index.global_symbols_table THEN NoLink
         ELSE IF index.symbols[index.global_symbols_table[target.symbol]].next_ = 0
         THEN NoLink
         ELSE NextLink(format_xref_from_identifier(self,
                index.symbols[index.symbols[
                    index.global_symbols_table[target.symbol]].next_].name))
    ELSE IF index.sections = None \/ index.sections = Some(EmptyDict) THEN NoLink
    ELSE IF target.kind \in {"Class", "Interface"}
    THEN NextSectionLink(self, index, target.gtype_name)
    ELSE IF target.kind = "DocSection"
    THEN NextSectionLink(self, index, target.name)
    ELSE NoLink

\* the names a sections file lists: the symbol of a function of the
\* namespace, a symbol of the namespace that names nothing, a name of no
\* namespace
SymbolNames == {"t_f", "t_h", "x"}

\* the titles of the sections: two types of the namespace
SectionTitles == {"Tx", "Tys"}

RECURSIVE ListsOf(_, _)
ListsOf(S, n) ==
    IF n = 0 THEN {<<>>}
    ELSE LET shorter == ListsOf(S, n - 1)
         IN shorter \cup {Append(l, e) : l \in shorter, e \in S}

Sections == {[title |-> t, symbols |-> l] :
                t \in SectionTitles, l \in ListsOf(SymbolNames, MaxSymbols)}

SectionsFiles == {None} \cup {Some(f) : f \in ListsOf(Sections, MaxSections) \ {<<>>}}

\* the nodes link_next_doc is called for
LinkNodes ==
    {[kind |-> "Function", symbol |-> "t_f", gtype_name |-> "", name |-> "f"],
     [kind |-> "Function", symbol |-> "x", gtype_name |-> "", name |-> "x"],
     [kind |-> "Class", symbol |-> "", gtype_name |-> "Tx", name |-> "x"],
     [kind |-> "DocSection", symbol |-> "", gtype_name |-> "", name |-> "Tys"],
     [kind |-> "Constant", symbol |-> "", gtype_name |-> "", name |-> "c"]}

SpecSectionsInit ==
    /\ FmtInit
    /\ DefaultOptions
    /\ _transformer \in Transformers
    /\ ScanOff
    /\ CallOff

\* DocFormatter(..., sections_file)
ParseSectionsFile ==
    /\ call = ""
    /\ \E sections_file \in SectionsFiles :
        /\ call' = "__init__"
        /\ call_args' = sections_file
        /\ call_ret' = _parse_sections_file(sections_file)
    /\ UNCHANGED call_log

LinkNextDoc ==
    /\ call = "__init__"
    /\ \E target \in LinkNodes :
        /\ call' = "link_next_doc"
        /\ call_log' = <<[node |-> target,
                          link |-> link_next_doc(Self, call_ret, target)]>>
    /\ UNCHANGED <<call_args, call_ret>>

SpecSectionsNext ==
    \/ ParseSectionsFile /\ UNCHANGED <<scanVars, fmtVars>>
    \/ LinkNextDoc /\ UNCHANGED <<scanVars, fmtVars>>

SpecSections == SpecSectionsInit /\ [][SpecSectionsNext]_vars

(***************************************************************************)
(* The class hierarchy: create_hierarchy_classes on a type of a small      *)
(* world of types, then dump_class on one of the HierarchyClass objects    *)
(* built, get_leaves step by step.  The HierarchyClass objects are the     *)
(* elements of a heap, referred to by their position; classes is a         *)
(* function of its keys.                                                   *)
(***************************************************************************)
TypeNode(kind, name, parent_type, interfaces) ==
    [kind |-> kind, name |-> name, namespace |-> NamespaceName, parent |-> None,
     parent_type |-> parent_type, interfaces |-> interfaces]

\* the classes, each one's parent type among the ones before it, and the
\* interfaces
ClassNames == <<"A", "B", "C">>
InterfaceNames == {"I", "J"}
InterfaceLists == {<<>>, <<"I">>, <<"J">>, <<"I", "J">>}

ParentTypes(i) == {None} \cup {Some(ClassNames[j]) : j \in 1..(i - 1)}

\* what the transformer knows of the types: a node for each name
Worlds ==
    {[name \in {ClassNames[i] : i \in 1..Len(ClassNames)} \cup InterfaceNames |->
        IF name \in InterfaceNames THEN TypeNode("Interface", name, None, <<>>)
        ELSE LET i == CHOOSE j \in 1..Len(ClassNames) : ClassNames[j] = name
             IN TypeNode("Class", name, parents[i], interfaces[i])] :
        parents \in {p \in [1..Len(ClassNames) -> ParentTypes(Len(ClassNames))] :
                        \A i \in 1..Len(ClassNames) : p[i] \in ParentTypes(i)},
        interfaces \in [1..Len(ClassNames) -> InterfaceLists]}

\* Transformer.lookup_typenode
lookup_typenode(world, type_name) == world[type_name]

\* "%s.%s" % (node.namespace.name, node.name)
QualifiedName(type_node) == type_node.namespace \o "." \o type_node.name

\* HierarchyClass(name, node)
HierarchyClass(name, type_node) ==
    [name |-> name, node |-> type_node, parents |-> <<>>, children |-> <<>>]

\* child.add_parent(parent), on the heap
add_parent(heap, child, parent) ==
    LET appended == [heap EXCEPT ![child].parents = Append(@, parent)]
    IN [appended EXCEPT ![parent].children = Append(@, child)]

\* try: classes[name] / except KeyError: a new object, put in classes or not
Lookup(h, name, type_node, register) ==
    IF name \in DOMAIN h.classes THEN [h |-> h, class |-> h.classes[name]]
    ELSE [h |-> [heap |-> Append(h.heap, HierarchyClass(name, type_node)),
                 classes |-> IF register
                             THEN SetItem(h.classes, name, Len(h.heap) + 1)
                             ELSE h.classes],
          class |-> Len(h.heap) + 1]

\* lines 853-860: the interface's node gets the GObject.GInterface node as a parent
AddInterfaceRoot(found, parent_class) ==
    [heap |-> add_parent(found.h.heap, parent_class, found.class),
     classes |-> found.h.classes]

\* mutant of InterfaceIsAdded: the parent's interfaces are not looked at
InterfaceIsAdded_Always(parent, interface) == TRUE

\* line 872: if not parent or interface not in parent.interfaces
InterfaceIsAdded(parent, interface) ==
    parent = None \/ ~InSeq(interface, parent[1].interfaces)

RECURSIVE add_parent_class(_, _, _, _, _)
RECURSIVE create_hierarchy_classes(_, _, _, _)
RECURSIVE AddInterfaces(_, _, _, _, _, _)

\* the hierarchy after add_parent_class(parent_type, child_class, classes,
\* is_interface); found is the node of the parent, line 847-850
AddParentClass(world, found, parent, child_class, is_interface) ==
    LET linked == [heap |-> add_parent(found.h.heap, child_class, found.class),
                   classes |-> found.h.classes]
    IN IF ~is_interface
       THEN create_hierarchy_classes(world, linked, parent, found.class)
       ELSE AddInterfaceRoot(Lookup(linked, "GObject.GInterface", None, TRUE),
                             found.class)

add_parent_class(world, h, parent_type, child_class, is_interface) ==
    AddParentClass(world,
                   Lookup(h, QualifiedName(lookup_typenode(world, parent_type)),
                          Some(parent_type), FALSE),
                   lookup_typenode(world, parent_type), child_class, is_interface)

\* the loop of lines 871-874 from the interface at position i on
AddInterfaces(world, h, type_node, parent, child_class, i) ==
    IF i > Len(type_node.interfaces) THEN h
    ELSE AddInterfaces(world,
            IF InterfaceIsAdded(parent, type_node.interfaces[i])
            THEN add_parent_class(world, h, type_node.interfaces[i], child_class,
                                  TRUE)
            ELSE h,
            type_node, parent, child_class, i + 1)

create_hierarchy_classes(world, h, type_node, child_class) ==
    LET registered == [h EXCEPT !.classes = SetItem(@, QualifiedName(type_node),
                                                    child_class)]
    IN IF type_node.parent_type # None
       THEN AddInterfaces(world,
                add_parent_class(world, registered, type_node.parent_type[1],
                                 child_class, FALSE),
                type_node,
                Some(lookup_typenode(world, type_node.parent_type[1])),
                child_class, 1)
       ELSE IF type_node.kind = "Class"
       THEN AddInterfaces(world, registered, type_node, None, child_class, 1)
       ELSE registered

\* lines 904-906: the hierarchy dump_class_hierarchy builds for a type
HierarchyOf(world, type_name) ==
    create_hierarchy_classes(world,
        [heap |-> <<HierarchyClass(QualifiedName(world[type_name]),
                                   Some(type_name))>>,
         classes |-> EmptyDict],
        world[type_name], 1)

\* the names in the order sorted() puts them
NameOrder == <<"GObject.GInterface", "T.A", "T.B", "T.C", "T.I", "T.J">>
Rank(name) == CHOOSE i \in 1..Len(NameOrder) : NameOrder[i] = name

\* sorted(leaves, key=name): the orders of the set that go up by name
SortedByName(heap, leaves) ==
    {order \in [1..Cardinality(leaves) -> leaves] :
        /\ \A k \in leaves : \E i \in 1..Cardinality(leaves) : order[i] = k
        /\ \A i \in 1..(Cardinality(leaves) - 1) :
              Rank(heap[order[i]].name) <= Rank(heap[order[i + 1]].name)}

\* mutant of PopOrder: the list is gone through from its start
PopOrder_FromStart(sorted) == sorted

\* while leaves: klass = leaves.pop(): from the end of the list
PopOrder(sorted) == [i \in 1..Len(sorted) |-> sorted[Len(sorted) + 1 - i]]

\* format_xref(klass.node, linkname=klass.name)
ItemLink(self, klass) ==
    format_xref(self,
                IF klass.node = None THEN None
                ELSE Some(Class(NamespaceName, klass.node[1], <<>>, <<>>)),
                FALSE, Some(klass.name)).ret

\* dump_tree: the strings added to xml_string, in order
RECURSIVE dump_tree(_, _, _)
RECURSIVE DumpChildren(_, _, _, _)
DumpChildren(self, heap, children, i) ==
    IF i > Len(children) THEN <<>>
    ELSE dump_tree(self, heap, children[i])
         \o DumpChildren(self, heap, children, i + 1)

dump_tree(self, heap, klass) ==
    <<"<item>", ItemLink(self, heap[klass])>>
    \o DumpChildren(self, heap, heap[klass].children, 1)
    \o <<"</item>">>

RECURSIVE DumpLeaves(_, _, _)
DumpLeaves(self, heap, leaves) ==
    IF leaves = <<>> THEN <<>>
    ELSE dump_tree(self, heap, Head(leaves)) \o DumpLeaves(self, heap, Tail(leaves))

\* lines 896-901 of dump_class: the strings xml_string is made of
DumpSorted(self, heap, sorted) ==
    <<"<tree>">> \o DumpLeaves(self, heap, PopOrder(sorted)) \o <<"</tree>">>

SpecHierarchyInit ==
    /\ FmtInit
    /\ DefaultOptions
    /\ _transformer = Transformer(<<NamespaceT, NamespaceG>>, "ValueError")
    /\ ScanOff
    /\ CallOff

\* dump_class_hierarchy(node), lines 904-906
CreateHierarchyClasses ==
    /\ call = ""
    /\ \E world \in Worlds, i \in 1..Len(ClassNames) :
        /\ call' = "create_hierarchy_classes"
        /\ call_args' = [world |-> world, node |-> ClassNames[i]]
        /\ call_ret' = HierarchyOf(world, ClassNames[i])
    /\ UNCHANGED call_log

\* dump_class(klass), line 893: get_leaves(klass, set()) is called
DumpClass ==
    /\ call = "create_hierarchy_classes"
    /\ \E klass \in 1..Len(call_ret.heap) :
        /\ call' = "get_leaves"
        /\ call_log' = [klass |-> klass, stack |-> <<klass>>, leaves |-> {},
                        calls |-> 0, xml_string |-> <<>>]
    /\ UNCHANGED <<call_args, call_ret>>

\* one call of get_leaves: the object on top of the stack, then its parents
GetLeaves ==
    /\ call = "get_leaves"
    /\ call_log.stack # <<>>
    /\ LET klass == call_ret.heap[Head(call_log.stack)]
       IN call_log' = [call_log EXCEPT
                !.leaves = IF klass.parents = <<>> THEN @ \cup {Head(call_log.stack)}
                           ELSE @,
                !.stack = klass.parents \o Tail(@),
                !.calls = @ + 1]
    /\ UNCHANGED <<call, call_args, call_ret>>

\* lines 894-901: get_leaves has returned, dump_class goes on
DumpClassReturn ==
    /\ call = "get_leaves"
    /\ call_log.stack = <<>>
    /\ call' = "dump_class"
    /\ \E sorted \in SortedByName(call_ret.heap, call_log.leaves) :
        call_log' = [call_log EXCEPT
                        !.xml_string = DumpSorted(Self, call_ret.heap, sorted)]
    /\ UNCHANGED <<call_args, call_ret>>

SpecHierarchyNext ==
    \/ CreateHierarchyClasses /\ UNCHANGED <<scanVars, fmtVars>>
    \/ DumpClass /\ UNCHANGED <<scanVars, fmtVars>>
    \/ GetLeaves /\ UNCHANGED <<scanVars, fmtVars>>
    \/ DumpClassReturn /\ UNCHANGED <<scanVars, fmtVars>>

SpecHierarchy == SpecHierarchyInit /\ [][SpecHierarchyNext]_vars

\* a call of get_leaves that can go on does go on
SpecHierarchyLive ==
    SpecHierarchy /\ WF_vars(GetLeaves /\ UNCHANGED <<scanVars, fmtVars>>)

(***************************************************************************)
(* Helpers of the properties.                                              *)
(***************************************************************************)
EndsWith(s, suffix) ==
    /\ Len(s) >= Len(suffix)
    /\ SubSeq(s, Len(s) - Len(suffix) + 1, Len(s)) = suffix

RECURSIVE Repeat(_, _)
Repeat(s, n) == IF n <= 0 THEN "" ELSE s \o Repeat(s, n - 1)

\* the number of occurrences of sub in s
RECURSIVE Count(_, _)
Count(s, sub) ==
    IF Len(s) < Len(sub) THEN 0
    ELSE (IF StartsWith(s, sub) THEN 1 ELSE 0) + Count(Slice(s, 1, Len(s)), sub)

\* the number of leading "#" of a heading token's text
RECURSIVE LeadingHashes(_)
LeadingHashes(s) ==
    IF s # "" /\ CharAt(s, 0) = "#" THEN 1 + LeadingHashes(Slice(s, 1, Len(s)))
    ELSE 0

Max(a, b) == IF a >= b THEN a ELSE b
Min(a, b) == IF a <= b THEN a ELSE b

\* format(node, d) by a formatter just built: the returned string, or the
\* exception in brackets
RECURSIVE InlineFresh(_, _, _)
InlineFresh(self, toks, acc) ==
    IF toks = <<>> THEN [self |-> self, ret |-> acc, exc |-> ""]
    ELSE LET r == _process_token(self, Head(toks))
         IN IF r.exc # "" THEN r
            ELSE InlineFresh(r.self, Tail(toks), acc \o r.ret)

FormatFresh(d) ==
    LET r == InlineFresh([Self EXCEPT !.processing_code = FALSE,
                                      !.opened_sections = 0,
                                      !.warned = <<>>, !.warnings = <<>>,
                                      !.opens = <<>>],
                         Scan(DocstringScanner, d), "")
    IN IF r.exc # "" THEN "[" \o r.exc \o "]"
       ELSE FormatTail("<p>", r.ret, FALSE, r.self.opened_sections).result

Returned == pc = "returned" /\ doc # None

HeadingNext ==
    /\ pc = "inline"
    /\ Len(words) < Len(tokens)
    /\ NextToken.kind = "heading"

(***************************************************************************)
(* C1 (as stated): when format returns, the closing tags of the sections   *)
(* still open at the end of the document come before the final "</p>".     *)
(***************************************************************************)
C1_ClosesBeforeParagraphClose ==
    (Returned /\ ~processing_code) =>
        EndsWith(result, Repeat("</section>", closed_at_end) \o "</p>")

(***************************************************************************)
(* C1 (amended): when format returns, the output ends with the final       *)
(* "</p>" (for a document that is wrapped in a paragraph) followed by one  *)
(* "</section>" per section still open at the end of the document: the     *)
(* trailing section closes come after the final paragraph close.           *)
(***************************************************************************)
C1_ClosesAfterParagraphClose ==
    Returned =>
        EndsWith(result, (IF processing_code THEN "" ELSE "</p>")
                         \o Repeat("</section>", closed_at_end))

C1_Witness == Returned /\ ~processing_code /\ closed_at_end > 0

(***************************************************************************)
(* C2: once format has returned, its output holds as many "<section>" as   *)
(* "</section>", whatever the heading levels and code fences of the        *)
(* document.                                                               *)
(***************************************************************************)
C2_SectionsBalanced ==
    Returned => Count(result, "<section>") = Count(result, "</section>")

\* a level 1 heading followed directly by a level 3 heading
C2_Witness ==
    /\ Returned
    /\ Count(result, "</p><section><title>") = 1
    /\ Count(result, "</p><section><section><title>") = 1
    /\ Count(result, "</section>") = 3

(***************************************************************************)
(* C3: the open-section depth is never negative, and it is 0 whenever      *)
(* format has returned for a document that is not None.                    *)
(***************************************************************************)
C3_DepthNeverNegative ==
    /\ _opened_sections >= 0
    /\ Returned => _opened_sections = 0

C3_Witness == Returned /\ closed_at_end = 2 /\ _opened_sections = 0

(***************************************************************************)
(* C4: a heading token of level L processed outside a code block at depth  *)
(* d makes the handler return "</p>", max(0, d - L + 1) section closes,    *)
(* the section opens that reach depth L, the title and "<p>", and leaves   *)
(* the depth at L.                                                         *)
(***************************************************************************)
C4_HeadingEmission ==
    [][(HeadingNext /\ ~_processing_code) =>
        LET L == LeadingHashes(Strip(NextToken.match, "\n"))
            d == _opened_sections
        IN /\ words' = Append(words,
                  "</p>" \o Repeat("</section>", Max(0, d - L + 1))
                  \o Repeat("<section>", L - Min(d, L - 1))
                  \o "<title>" \o NextToken.props["heading"][1] \o "</title><p>")
           /\ _opened_sections' = L]_vars

(***************************************************************************)
(* C5: no transducer state crosses documents: every format call starts     *)
(* with the inside-code flag false and depth 0, and the output of a        *)
(* document is the one a formatter just built gives.                       *)
(***************************************************************************)
C5_NoStateCrossesDocuments ==
    /\ pc = "idle" => (~_processing_code /\ _opened_sections = 0)
    /\ Returned => result = FormatFresh(doc[1])

(***************************************************************************)
(* C6: a code fence opener with a language tag returns the code element    *)
(* with the MIME type of the tag, or without the attribute when the tag    *)
(* (lower-cased) is not in the table, and sets the inside-code flag; it    *)
(* does not abort the document.                                            *)
(***************************************************************************)
C6_UnknownLanguageDegrades ==
    [][(/\ pc = "inline"
        /\ Len(words) < Len(tokens)
        /\ NextToken.kind = "code_start_with_language") =>
        LET key == Lower(NextToken.props["language_name"][1])
        IN /\ pc' = "inline"
           /\ _processing_code'
           /\ words' = Append(words,
                  IF key \in DOMAIN language_mimes
                  THEN "</p><code mime=\"" \o language_mimes[key] \o "\">"
                  ELSE "</p><code>")]_vars


(***************************************************************************)
(* Helpers of the scanner's properties.                                    *)
(***************************************************************************)
\* the texts of the tokens, concatenated in order
RECURSIVE Texts(_)
Texts(toks) == IF toks = <<>> THEN "" ELSE Head(toks).match \o Texts(Tail(toks))

\* the offset in text at which the i-th yielded token starts
OffsetOf(i) == Len(Texts(SubSeq(yielded, 1, i - 1)))

\* the flattened names of the named sub-groups of the alternative called kind
SubGroupsOf(regex, kind) ==
    LET w == CHOOSE w \in 1..Len(regex) : regex[w].name = kind
    IN {Slice(regex[w].groups[j].name, Len(kind) + 1,
              Len(regex[w].groups[j].name)) : j \in 1..Len(regex[w].groups)}

(***************************************************************************)
(* C7: the cursor of scan strictly advances on every iteration of the      *)
(* loop, for every compiled grammar, also one whose alternative can match  *)
(* the empty string; so scan terminates on every finite text.              *)
(***************************************************************************)
C7_CursorStrictlyAdvances ==
    [][(scan_pc = "loop" /\ scan_pc' = "loop" /\ yielded' # yielded) =>
            pos' > pos]_vars

(***************************************************************************)
(* C8: the tokens scan yields partition the input: their texts, in order,  *)
(* concatenate to the input read so far (to the whole input once scan has  *)
(* returned); every 'other' token is non-empty, is not next to another     *)
(* 'other' token, and covers exactly the span from the end of the previous *)
(* match (or the start of the text) to the start of the next match (or the *)
(* end of the text).                                                       *)
(***************************************************************************)
C8_TokensPartitionInput ==
    /\ Texts(yielded) = (IF scan_pc = "done" THEN text ELSE Slice(text, 0, pos))
    /\ \A i \in 1..Len(yielded) :
        yielded[i].kind = "other" =>
            /\ yielded[i].match # ""
            /\ i > 1 => yielded[i - 1].kind # "other"
            /\ i < Len(yielded) => yielded[i + 1].kind # "other"
            /\ LET a == OffsetOf(i)
                   b == a + Len(yielded[i].match)
                   m == Search(scanner, text, a)
               IN IF m.ok
                  THEN /\ m.start = b
                       /\ i < Len(yielded)
                       /\ yielded[i + 1].kind = m.lastgroup
                  ELSE /\ b = Len(text)
                       /\ i = Len(yielded)
                       /\ scan_pc = "done"

\* scan has returned an 'other' token, a match and the 'other' token after it
C8_Witness ==
    /\ scan_pc = "done"
    /\ \E i \in 1..Len(yielded) :
        /\ i + 2 <= Len(yielded)
        /\ yielded[i].kind = "other"
        /\ yielded[i + 1].kind # "other"
        /\ yielded[i + 2].kind = "other"

(***************************************************************************)
(* C9: the properties of a token that is not 'other' hold, besides the     *)
(* token's own kind, only flattened names of sub-groups of the winning     *)
(* alternative, and only groups that took part in the match (no None).     *)
(***************************************************************************)
C9_OnlyParticipatingSubGroups ==
    \A i \in 1..Len(yielded) :
        yielded[i].kind # "other" =>
            LET props == yielded[i].props
            IN /\ (DOMAIN props) \ {yielded[i].kind}
                      \subseteq SubGroupsOf(scanner, yielded[i].kind)
               /\ \A k \in DOMAIN props : props[k] # None

(***************************************************************************)
(* C10: for a type_name token whose identifier does not resolve as a type, *)
(* the handler strips exactly one trailing "s" and retries once: when the  *)
(* identifier minus its last "s" resolves, it returns the pluralized link  *)
(* to that type; otherwise, also when only the identifier minus two or     *)
(* more "s" would resolve, it returns the token text unchanged.            *)
(***************************************************************************)
C10_StripsExactlyOneS ==
    [][(/\ pc = "inline"
        /\ Len(words) < Len(tokens)
        /\ NextToken.kind = "type_name"
        /\ _resolve_type(Self, NextToken.props["type_name"][1]) = None) =>
        LET ident == NextToken.props["type_name"][1]
            singular == IF EndsWith(ident, "s")
                        THEN Slice(ident, 0, Len(ident) - 1) ELSE ident
            type_ == _resolve_type(Self, singular)
        IN words' = Append(words,
                IF type_ = None THEN NextToken.match
                ELSE "<link xref=\"" \o make_page_id(type_[1]) \o "\">"
                     \o make_page_id(type_[1]) \o "s</link>")]_vars

(***************************************************************************)
(* C16: while the inside-code flag is set, a heading or a note token is    *)
(* emitted as its matched text and a paragraph break as a blank line, the  *)
(* flag and the section depth stay as they are; and the flag is cleared by *)
(* a code_end token only.                                                  *)
(***************************************************************************)
C16_CodeBlockPassesThrough ==
    [][/\ (/\ pc = "inline"
           /\ Len(words) < Len(tokens)
           /\ _processing_code
           /\ NextToken.kind \in {"heading", "note", "new_paragraph"}) =>
              /\ words' = Append(words, IF NextToken.kind = "new_paragraph"
                                        THEN "\n\n" ELSE NextToken.match)
              /\ _processing_code'
              /\ _opened_sections' = _opened_sections
              /\ pc' = "inline"
       /\ (_processing_code /\ ~_processing_code') =>
              /\ pc = "inline"
              /\ Len(words) < Len(tokens)
              /\ NextToken.kind = "code_end"]_vars

\* inside a code block a paragraph break has just been passed through
C16_Witness ==
    /\ pc = "inline"
    /\ _processing_code
    /\ words # <<>>
    /\ tokens[Len(words)].kind = "new_paragraph"
    /\ words[Len(words)] = "\n\n"

(***************************************************************************)
(* Helpers of the properties of the include handler.                       *)
(***************************************************************************)
IncludeNext ==
    /\ pc = "inline"
    /\ Len(words) < Len(tokens)
    /\ NextToken.kind = "include"

\* the places an include of the file name can be read from, in the order
\* the handler has to try them
PlacesOf(filename) ==
    <<filename>> \o [i \in 1..Len(IncludeDirectories) |->
                        PathJoin(IncludeDirectories[i], filename)]

\* the positions in PlacesOf where a file exists
Existing(filename) ==
    {i \in 1..Len(PlacesOf(filename)) : PlacesOf(filename)[i] \in DOMAIN Files}

FirstExisting(filename) ==
    CHOOSE i \in Existing(filename) : \A j \in Existing(filename) : i <= j

NextInclude == StripBlank(NextToken.props["include_name"][1])

(***************************************************************************)
(* C13: an include token whose file opens neither as given nor under an    *)
(* include directory emits exactly one warning, is returned as it was      *)
(* matched, leaves the inside-code flag and the section depth as they      *)
(* were, and the run goes on with the next token.                          *)
(***************************************************************************)
C13_MissingIncludeWarnsOnce ==
    [][(IncludeNext /\ Existing(NextInclude) = {}) =>
          /\ warnings' = Append(warnings, [text |-> "Could not find file",
                                           about |-> NextToken.props["include_name"][1]])
          /\ words' = Append(words, NextToken.match)
          /\ _processing_code' = _processing_code
          /\ _opened_sections' = _opened_sections
          /\ pc' = "inline"]_vars

\* '{{n}}x' has been rendered: one warning, the token as it was, then the x
C13_Witness ==
    /\ Returned
    /\ doc = Some("{{n}}x")
    /\ result = "<p>{{n}}x</p>"
    /\ Len(warnings) = 1

(***************************************************************************)
(* C14: an include is opened as given first, then under each include       *)
(* directory in order; the first place that opens gives the contents and   *)
(* no later place is tried.                                                *)
(***************************************************************************)
C14_FirstPlaceWins ==
    [][IncludeNext =>
          IF Existing(NextInclude) = {}
          THEN opens' = opens \o PlacesOf(NextInclude)
          ELSE LET first == FirstExisting(NextInclude)
                   contents == Files[PlacesOf(NextInclude)[first]]
               IN /\ opens' = opens \o SubSeq(PlacesOf(NextInclude), 1, first)
                  /\ pc' = "inline" =>
                        words' = Append(words,
                            IF _processing_code
                            THEN _resolve_implicit_links(contents)
                            ELSE format_inline(Self, contents).ret)]_vars

\* g is not in the working directory, it is in both include directories
\* with different contents: the first directory's "|[" was used
C14_Witness ==
    /\ pc = "inline"
    /\ doc = Some("{{ g }}")
    /\ opens = <<"g", "d/g">>
    /\ words = <<"</p><code>">>
    /\ _processing_code

(***************************************************************************)
(* C15: an include processed inside a code block is not scanned: the       *)
(* inside-code flag and the section depth stay and the contents come out   *)
(* as text, without a tag.  Outside a code block the contents go through   *)
(* every handler, in place: no paragraph is opened around them and the     *)
(* sections they open stay open.                                           *)
(***************************************************************************)
C15_IncludeInCodeIsNotScanned ==
    [][(IncludeNext /\ Existing(NextInclude) # {}) =>
          LET contents == Files[PlacesOf(NextInclude)[FirstExisting(NextInclude)]]
              inline == ProcessTokens(Self, Scan(DocstringScanner, contents), "")
          IN IF _processing_code
             THEN /\ words' = Append(words, escape(contents))
                  /\ _processing_code'
                  /\ _opened_sections' = _opened_sections
                  /\ pc' = "inline"
             ELSE /\ inline.exc = "" => words' = Append(words, inline.ret)
                  /\ _processing_code' = inline.self.processing_code
                  /\ _opened_sections' = inline.self.opened_sections]_vars

\* f holds a heading and a closing fence: included in a code block, it is
\* text and the block stays open at depth 0
C15_Witness ==
    /\ pc = "inline"
    /\ doc = Some("|[{{f}}")
    /\ words = <<"</p><code>", "# t\n\n]|">>
    /\ _processing_code
    /\ _opened_sections = 0

\* f included outside a code block: its heading opened a section that the
\* include left open, and no "<p>" was put in front
C15_WitnessScanned ==
    /\ pc = "inline"
    /\ doc = Some("{{f}}")
    /\ Len(words) = 1
    /\ _opened_sections = 1
    /\ ~StartsWith(words[1], "<p>")


(***************************************************************************)
(* C12 (as stated).  The lookup of a reference fails when the type, the    *)
(* symbol, the property, the signal or the parameter is not found, or the  *)
(* owner has no parameters; "not found" is what the resolvers return on a  *)
(* transformer whose splitters raise ValueError for an identifier of no    *)
(* namespace.                                                              *)
(***************************************************************************)
LookupFails(tok) ==
    CASE tok.kind = "type_name" ->
            /\ _resolve_type(Self, tok.props["type_name"][1]) = None
            /\ _resolve_type(Self, RStrip(tok.props["type_name"][1], "s")) = None
      [] tok.kind \in {"property", "signal"} ->
            LET type_node == _resolve_type(Self, tok.props["type_name"][1])
            IN \/ type_node = None
               \/ IF tok.kind = "property"
                  THEN ~InSeq(tok.props["property_name"][1], type_node[1].properties)
                  ELSE ~InSeq(tok.props["signal_name"][1], type_node[1].signals)
      [] tok.kind = "enum_value" ->
            /\ tok.props["member_name"][1] \notin DOMAIN fundamentals
            /\ _resolve_symbol(Self, tok.props["member_name"][1]).node = None
      [] tok.kind = "parameter" ->
            \/ node = None
            \/ ~InSeq(tok.props["param_name"][1], node[1].parameters)
      [] tok.kind = "function_call" ->
            _resolve_symbol(Self, tok.props["symbol_name"][1]).node = None
      [] OTHER -> FALSE

\* C12: a reference whose lookup fails is returned as it was matched, without
\* a diagnostic; the inside-code flag and the section depth stay, and the
\* run goes on with the next token
C12_FailedLookupKeepsText ==
    [][(pc = "inline" /\ Len(words) < Len(tokens) /\ LookupFails(NextToken)) =>
          /\ words' = Append(words, NextToken.match)
          /\ warnings' = warnings
          /\ _processing_code' = _processing_code
          /\ _opened_sections' = _opened_sections
          /\ pc' = "inline"]_vars


(***************************************************************************)
(* Helpers of the properties of the resolvers.                             *)
(***************************************************************************)
\* the positions of the namespaces that are candidates for the identifier
CandidateNamespaces(ident, what) ==
    {i \in 1..Len(_transformer.namespaces) :
        StartsWith(ident, PrefixOf(_transformer.namespaces[i], what))}

Range(seq) == {seq[i] : i \in 1..Len(seq)}

\* the nodes of namespace i that have the C symbol
WithSymbol(i, symbol) ==
    {n \in Range(_transformer.namespaces[i].nodes) : n.symbol = symbol}

\* the nodes of namespace i called as the symbol is without its prefix
WithName(i, symbol) ==
    {n \in Range(_transformer.namespaces[i].nodes) :
        n.name = Slice(symbol, Len(PrefixOf(_transformer.namespaces[i], "csymbol")),
                       Len(symbol))}

Least(I) == CHOOSE i \in I : \A j \in I : i <= j

(***************************************************************************)
(* C19 (as stated): for an identifier that no namespace is a candidate     *)
(* for, _resolve_type and _resolve_symbol return None and do not raise,    *)
(* whether the splitter raises ValueError or returns an empty list.        *)
(***************************************************************************)
C19_UnsplittableIsNotFound ==
    /\ (call = "_resolve_type" /\ CandidateNamespaces(call_args, "ctype") = {}) =>
          call_ret = Found(None)
    /\ (call = "_resolve_symbol" /\ CandidateNamespaces(call_args, "csymbol") = {}) =>
          call_ret = Found(None)

(***************************************************************************)
(* C20 (as stated): _resolve_symbol returns the node of exactly that C     *)
(* symbol from the first candidate namespace that holds one, even when an  *)
(* earlier candidate holds a node of that name; when no candidate holds    *)
(* the symbol, the node of that name from the first candidate that holds   *)
(* one; None when no candidate holds either.                               *)
(***************************************************************************)
C20_ExactSymbolFirst ==
    call = "_resolve_symbol" =>
        LET cands == CandidateNamespaces(call_args, "csymbol")
            exact == {i \in cands : WithSymbol(i, call_args) # {}}
            named == {i \in cands : WithName(i, call_args) # {}}
        IN IF exact # {}
           THEN /\ call_ret.exc = ""
                /\ call_ret.node # None
                /\ call_ret.node[1] \in WithSymbol(Least(exact), call_args)
           ELSE IF named # {}
           THEN /\ call_ret.exc = ""
                /\ call_ret.node # None
                /\ call_ret.node[1] \in WithName(Least(named), call_args)
           ELSE call_ret = Found(None)


(***************************************************************************)
(* Helpers of the properties of the cross-references.                      *)
(***************************************************************************)
\* the positions of a character in a string
PositionsOf(s, c) == {i \in 0..(Len(s) - 1) : CharAt(s, i) = c}

\* the attribute of a link element: what is between its first two quotes
TargetOf(link) ==
    LET first == Least(PositionsOf(link, "\""))
        second == Least(PositionsOf(link, "\"") \ {first})
    IN Slice(link, first + 1, second)

\* the text of a link element, None when the element is empty
TextOf(link) ==
    IF EndsWith(link, "/>") THEN None
    ELSE Some(Slice(link, Least(PositionsOf(link, ">")) + 1,
                    Len(link) - Len("</link>")))

Foreign(n) == n.namespace # _transformer.namespace.name

\* the number of calls so far that rendered a node of the namespace
RenderingsOf(ns) == Cardinality({i \in 1..Len(call_log) : call_log[i] = ns})

(***************************************************************************)
(* C11: the pluralized cross-reference to a type has the target of the     *)
(* cross-reference that is not pluralized, and its text is the name of the *)
(* type's page followed by one "s", for a type of the namespace and for a  *)
(* type of another namespace.                                              *)
(***************************************************************************)
C11_PluralKeepsTarget ==
    (/\ call = "format_xref"
     /\ call_args.pluralize
     /\ call_args.node.kind = "Class"
     /\ call_ret.exc = "") =>
        /\ TargetOf(call_ret.ret) =
              TargetOf(format_xref(Self, Some(call_args.node), FALSE, None).ret)
        /\ TextOf(call_ret.ret) = Some(format_page_name(call_args.node) \o "s")

\* the class y of G, rendered pluralized with the gtk-doc index of g-2.0
C11_Witness ==
    /\ call = "format_xref"
    /\ call_args.pluralize
    /\ Foreign(call_args.node)
    /\ link_to_gtk_doc
    /\ call_ret = [ret |-> "<link href=\"o/Gy.html\">G.ys</link>", exc |-> ""]

\* the class x of T, rendered pluralized
C11_WitnessInternal ==
    /\ call = "format_xref"
    /\ call_args.pluralize
    /\ call_ret = [ret |-> "<link xref=\"T.x\">T.xs</link>", exc |-> ""]

(***************************************************************************)
(* C17: over the cross-references one formatter renders, no two warnings   *)
(* are about the same namespace: a namespace that was warned about (no     *)
(* reference, no online reference, approximate match) is not warned about  *)
(* again.                                                                  *)
(***************************************************************************)
C17_OneWarningPerNamespace ==
    \A i, j \in 1..Len(warnings) :
        i # j => warnings[i].about # warnings[j].about

\* nodes of G were rendered three times from the gtk-doc index, nodes of H
\* never: there is one warning, about G
C17_Witness ==
    /\ link_to_gtk_doc
    /\ RenderingsOf("G") = 3
    /\ Len(warnings) = 1
    /\ warnings[1].about = "G"
    /\ _warned_external_references = <<"G">>

(***************************************************************************)
(* C18: the attributes format_gtk_doc_attributes returns for a node do not *)
(* depend on the namespaces warned about before: they are the attributes   *)
(* it returns on any other content of the warned list.                     *)
(***************************************************************************)
WarnedLists == {<<>>, <<"G">>, <<"H">>, <<"G", "H">>, <<"H", "G">>}

C18_WarnedOnlySuppresses ==
    call = "format_gtk_doc_attributes" =>
        \A warned \in WarnedLists :
            LET r == format_gtk_doc_attributes([Self EXCEPT !.warned = warned],
                                               call_args.node)
            IN r.ret = call_ret.ret /\ r.exc = call_ret.exc

\* the attributes of the class y of G, asked for after G was warned about
\* (an approximate match): the href is the one of the index
C18_Witness ==
    /\ call = "format_gtk_doc_attributes"
    /\ call_args.node.namespace = "G"
    /\ RenderingsOf("G") >= 2
    /\ warnings = <<[text |-> "Using an approximate match", about |-> "G"]>>
    /\ call_ret = [ret |-> "r/Gy.html", exc |-> ""]


(***************************************************************************)
(* C22 (as stated): escape of a text that escape returned is that text:    *)
(* the entities of the first pass are not escaped again.                   *)
(***************************************************************************)
C22_EscapeIsIdempotent ==
    call = "escape(escape)" => call_ret = escape(call_args)


(***************************************************************************)
(* Helpers of the properties of plain text.                                *)
(***************************************************************************)
\* the scanner found no markup in the document: every token is text
OnlyOther == \A i \in 1..Len(tokens) : tokens[i].kind = "other"

\* format was entered outside a code block and found no section to close:
\* the formatter was as a fresh one is
AsFresh == ~processing_code /\ closed_at_end = 0

(***************************************************************************)
(* C23 (as stated): a document without markup, rendered by a fresh         *)
(* formatter, comes out as '<p>' + document + '</p>', its characters       *)
(* unchanged.                                                              *)
(***************************************************************************)
C23_PlainTextUnchanged ==
    (Returned /\ OnlyOther /\ AsFresh) => result = "<p>" \o doc[1] \o "</p>"

(***************************************************************************)
(* C23 (amended): a document without markup, rendered by a fresh           *)
(* formatter, comes out as '<p>' + escape(document) + '</p>': the          *)
(* characters are unchanged but for '<', '>' and '&', which are escaped.   *)
(***************************************************************************)
C23_PlainTextEscaped ==
    (Returned /\ OnlyOther /\ AsFresh) =>
        /\ result = "<p>" \o escape(doc[1]) \o "</p>"
        /\ (\A c \in {"<", ">", "&"} : PositionsOf(doc[1], c) = {}) =>
              result = "<p>" \o doc[1] \o "</p>"

\* a language tag without its fence is text: its '<' and '>' are escaped
C23_Witness ==
    /\ Returned
    /\ OnlyOther
    /\ AsFresh
    /\ doc = Some("x<!-- language=\"C\" -->")
    /\ result = "<p>x&lt;!-- language=\"C\" --&gt;</p>"


(***************************************************************************)
(* C28 (as stated): outside a code block, the level of every heading token *)
(* is computed without reading past the end of its text: the handler       *)
(* returns, and the depth is the number of leading "#" of the token; "#"   *)
(* followed by newlines only is a heading of level 1.                      *)
(***************************************************************************)
C28_HeadingLevelIsDefined ==
    [][(HeadingNext /\ ~_processing_code) =>
          /\ pc' = "inline"
          /\ exc' = ""
          /\ _opened_sections' = LeadingHashes(NextToken.match)]_vars


\* the paragraph tags of a text, in order ("p" for '<p>', "/p" for '</p>'),
\* and with block set its code tags too ("c" for '<code', "/c" for '</code>')
TagAt(s, i, block) ==
    LET at(tag) == i + Len(tag) - 1 <= Len(s) /\ SubSeq(s, i, i + Len(tag) - 1) = tag
    IN IF at("<p>") THEN "p"
       ELSE IF at("</p>") THEN "/p"
       ELSE IF block /\ at("<code") THEN "c"
       ELSE IF block /\ at("</code>") THEN "/c"
       ELSE ""

TagsOf(s, block) ==
    SelectSeq([i \in 1..Len(s) |-> TagAt(s, i, block)], LAMBDA t : t # "")

FenceKinds == {"code_start", "code_start_with_language", "code_end"}

\* the paragraph tags of the first n words, and the code tags of those of
\* them that the fences emitted (a parameter's or a constant's inline
\* '<code>' is not a code block)
RECURSIVE BlockTags(_, _, _)
BlockTags(toks, ws, n) ==
    IF n = 0 THEN <<>>
    ELSE BlockTags(toks, ws, n - 1) \o TagsOf(ws[n], toks[n].kind \in FenceKinds)

\* what is open after the tags: "p" a paragraph, "c" a code element, "" neither,
\* "bad" once a tag came where it may not (a paragraph tag inside a code
\* element, a code tag inside a paragraph, a closing tag of nothing open)
RECURSIVE OpenAfter(_, _)
OpenAfter(tags, open) ==
    IF tags = <<>> \/ open = "bad" THEN open
    ELSE OpenAfter(Tail(tags),
                   CASE Head(tags) = "p" /\ open = "" -> "p"
                     [] Head(tags) = "/p" /\ open = "p" -> ""
                     [] Head(tags) = "c" /\ open = "" -> "c"
                     [] Head(tags) = "/c" /\ open = "c" -> ""
                     [] OTHER -> "bad")

\* the kinds of the fence tokens of the document, in order
FencesOf(toks) ==
    SelectSeq([i \in 1..Len(toks) |-> toks[i].kind], LAMBDA k : k \in FenceKinds)

\* the fences alternate strictly between an opener and a closer
FencesAlternate(toks) ==
    LET fences == FencesOf(toks)
    IN /\ Len(fences) % 2 = 0
       /\ \A i \in 1..Len(fences) : (fences[i] = "code_end") <=> (i % 2 = 0)

NoInclude(toks) == \A i \in 1..Len(toks) : toks[i].kind # "include"

SubstituteWord(self, word) ==
    IF word = "" \/ ImplicitLink(self, word).xref = None THEN word
    ELSE ImplicitLink(self, word).xref[1]

RECURSIVE WordByWord(_, _, _)
WordByWord(self, s, word) ==
    IF s = "" THEN SubstituteWord(self, word)
    ELSE IF CharAt(s, 0) \in Separators
    THEN SubstituteWord(self, word) \o CharAt(s, 0)
         \o WordByWord(self, Slice(s, 1, Len(s)), "")
    ELSE WordByWord(self, Slice(s, 1, Len(s)), word \o CharAt(s, 0))

(***************************************************************************)
(* C21 (as stated): _resolve_implicit_links returns, in implicit-link      *)
(* mode, the escaped text with each word that resolves replaced by its     *)
(* cross-reference and every other word untouched, a word that contains a  *)
(* resolved word included, the markup put for another word unaltered; and  *)
(* with the mode off, exactly the escaped text.                            *)
(***************************************************************************)
C21_WordsReplaced ==
    call = "_resolve_implicit_links" =>
        /\ call_ret.exc = ""
        /\ call_ret.ret =
              IF call_args.resolve_implicit_links
              THEN WordByWord(Self, escape(call_args.match), "")
              ELSE escape(call_args.match)



\* the name of the symbol after the one the global table has for name
\* (None when there is none)
NextOf(index, name) ==
    LET symbol == index.symbols[index.global_symbols_table[name]]
    IN IF symbol.next_ = 0 THEN None ELSE Some(index.symbols[symbol.next_].name)

(***************************************************************************)
(* C27 (as stated): once the index is built, the global table's symbol for *)
(* any name a section lists has as its next the symbol listed right after  *)
(* that name in the section, and none when the name is listed last, a name *)
(* listed more than once included; and without a sections file             *)
(* link_next_doc returns ''.                                               *)
(***************************************************************************)
C27_NextIsTheFollowing ==
    /\ (call \in {"__init__", "link_next_doc"} /\ call_args # None) =>
          \A j \in 1..Len(call_args[1]) :
              LET listed == call_args[1][j].symbols
              IN \A i \in 1..Len(listed) :
                    /\ listed[i] \in DOMAIN call_ret.global_symbols_table
                    /\ NextOf(call_ret, listed[i]) =
                          IF i < Len(listed) THEN Some(listed[i + 1]) ELSE None
    /\ (call = "link_next_doc" /\ call_args = None) => call_log[1].link = NoLink



\* a hierarchy has been built
Built == call \in {"create_hierarchy_classes", "get_leaves", "dump_class"}

\* the objects of the hierarchy called name
Named(heap, name) == {k \in 1..Len(heap) : heap[k].name = name}

(***************************************************************************)
(* C24 (as stated): the hierarchy built for a type holds at most one       *)
(* HierarchyClass object of any qualified name.                            *)
(***************************************************************************)
C24_OneNodePerName ==
    Built => \A k \in 1..Len(call_ret.heap) :
                Named(call_ret.heap, call_ret.heap[k].name) = {k}


\* the interfaces that line 872 lets a type add: all of them for a type
\* without a parent type, else the ones its parent type does not declare
AddedInterfaces(world, type_node) ==
    SelectSeq(type_node.interfaces,
              LAMBDA i : \/ type_node.parent_type = None
                         \/ ~InSeq(i, world[type_node.parent_type[1]].interfaces))

\* the names of the parents a class's object is to have
ParentNames(world, type_node) ==
    (IF type_node.parent_type = None THEN <<>>
     ELSE <<QualifiedName(world[type_node.parent_type[1]])>>)
    \o [i \in 1..Len(AddedInterfaces(world, type_node)) |->
            QualifiedName(world[AddedInterfaces(world, type_node)[i]])]

IsInterface(klass) == klass.node # None /\ klass.node[1] \in InterfaceNames
IsClass(klass) == klass.node # None /\ klass.node[1] \notin InterfaceNames

(***************************************************************************)
(* C25: in the hierarchy built, the object of a class has as parents its   *)
(* parent type and then exactly the interfaces it declares that its parent *)
(* type does not declare (all of them when it has no parent type); the     *)
(* object of an interface has one parent, the synthetic GObject.GInterface *)
(* object; and at most one synthetic object exists, one when an interface  *)
(* was added.                                                              *)
(***************************************************************************)
C25_InterfacesAdded ==
    Built =>
        LET heap == call_ret.heap
            world == call_args.world
        IN /\ \A k \in 1..Len(heap) :
                IsClass(heap[k]) =>
                    [i \in 1..Len(heap[k].parents) |-> heap[heap[k].parents[i]].name]
                        = ParentNames(world, world[heap[k].node[1]])
           /\ \A k \in 1..Len(heap) :
                IsInterface(heap[k]) =>
                    /\ Len(heap[k].parents) = 1
                    /\ heap[heap[k].parents[1]].name = "GObject.GInterface"
                    /\ heap[heap[k].parents[1]].node = None
                    /\ InSeq(k, heap[heap[k].parents[1]].children)
           /\ Cardinality(Named(heap, "GObject.GInterface")) <= 1
           /\ (\E k \in 1..Len(heap) : IsInterface(heap[k]))
                 <=> Named(heap, "GObject.GInterface") # {}

\* C declares I and J, its parent B declares I: C's object has B and J as
\* parents, B's object has I
C25_Witness ==
    /\ call = "create_hierarchy_classes"
    /\ call_args.node = "C"
    /\ call_args.world["C"].parent_type = Some("B")
    /\ call_args.world["C"].interfaces = <<"I", "J">>
    /\ call_args.world["B"].interfaces = <<"I">>
    /\ call_args.world["B"].parent_type = None
    /\ [i \in 1..Len(call_ret.heap[1].parents) |->
            call_ret.heap[call_ret.heap[1].parents[i]].name] = <<"T.B", "T.J">>
    /\ Cardinality(Named(call_ret.heap, "GObject.GInterface")) = 1


\* the objects reached from those of S by following parents any number of times
RECURSIVE ReachableFrom(_, _)
ReachableFrom(heap, S) ==
    LET next == S \cup {p \in 1..Len(heap) :
                          \E k \in S : InSeq(p, heap[k].parents)}
    IN IF next = S THEN S ELSE ReachableFrom(heap, next)

\* the objects without parents among those reached from klass
RootsOf(heap, klass) ==
    {k \in ReachableFrom(heap, {klass}) : heap[k].parents = <<>>}

\* the items of a dump, in order: for each "<item>" its depth (the items
\* open once it is) and the link that follows it
ItemsOf(xml) ==
    LET opened(p) == Cardinality({q \in 1..p : xml[q] = "<item>"})
                     - Cardinality({q \in 1..p : xml[q] = "</item>"})
        at == SelectSeq([p \in 1..Len(xml) |-> p], LAMBDA p : xml[p] = "<item>")
    IN [i \in 1..Len(at) |-> [depth |-> opened(at[i]), link |-> xml[at[i] + 1]]]

\* the link of an object: to its page, with its name as text
LinkOf(klass) ==
    "<link xref=\"" \o (IF klass.node = None THEN "index" ELSE klass.name)
    \o "\">" \o klass.name \o "</link>"

\* the subtree of an object in pre-order: the object, then the subtrees of
\* its children in their order, one level down
RECURSIVE PreOrder(_, _, _)
RECURSIVE PreOrderAll(_, _, _, _)
PreOrderAll(heap, list, i, depth) ==
    IF i > Len(list) THEN <<>>
    ELSE PreOrder(heap, list[i], depth) \o PreOrderAll(heap, list, i + 1, depth)

PreOrder(heap, klass, depth) ==
    <<[depth |-> depth, link |-> LinkOf(heap[klass])]>>
    \o PreOrderAll(heap, heap[klass].children, 1, depth + 1)

\* the roots from the last name to the first
RootsDescending(heap, klass) ==
    CHOOSE order \in [1..Cardinality(RootsOf(heap, klass)) -> RootsOf(heap, klass)] :
        /\ \A k \in RootsOf(heap, klass) : \E i \in DOMAIN order : order[i] = k
        /\ \A i \in 1..(Len(order) - 1) :
              Rank(heap[order[i]].name) > Rank(heap[order[i + 1]].name)

\* get_leaves has returned: no call of it is left to make
GetLeavesReturned ==
    call = "dump_class" \/ (call = "get_leaves" /\ call_log.stack = <<>>)

(***************************************************************************)
(* C26: get_leaves collects nothing but objects without parents reached    *)
(* from the start, and has them all when it returns; every call of         *)
(* get_leaves on a hierarchy built returns; and what dump_class emits is   *)
(* '<tree>', then for each root once, from the last root name to the       *)
(* first, the pre-order subtree of the root, then '</tree>'.               *)
(***************************************************************************)
C26_LeavesAndDump ==
    /\ [](call = "get_leaves" =>
            call_log.leaves \subseteq RootsOf(call_ret.heap, call_log.klass))
    /\ [](call = "dump_class" =>
            /\ call_log.leaves = RootsOf(call_ret.heap, call_log.klass)
            /\ Head(call_log.xml_string) = "<tree>"
            /\ call_log.xml_string[Len(call_log.xml_string)] = "</tree>"
            /\ Cardinality({p \in 1..Len(call_log.xml_string) :
                              call_log.xml_string[p] = "<item>"})
                 = Cardinality({p \in 1..Len(call_log.xml_string) :
                                  call_log.xml_string[p] = "</item>"})
            /\ SelectSeq(ItemsOf(call_log.xml_string), LAMBDA item : item.depth = 1)
                 = [i \in 1..Cardinality(call_log.leaves) |->
                      [depth |-> 1,
                       link |-> LinkOf(call_ret.heap[
                                   RootsDescending(call_ret.heap, call_log.klass)[i]])]]
            /\ ItemsOf(call_log.xml_string)
                 = PreOrderAll(call_ret.heap,
                               RootsDescending(call_ret.heap, call_log.klass), 1, 1))
    /\ (call = "get_leaves") ~> GetLeavesReturned

\* dump_class of the object of C, a class with a parent type and an
\* interface: two roots, the top class dumped before GObject.GInterface
C26_Witness ==
    /\ call = "dump_class"
    /\ call_log.klass = 1
    /\ Cardinality(call_log.leaves) = 2
    /\ call_log.calls >= 4
    /\ call_log.xml_string[3] = "<link xref=\"T.A\">T.A</link>"
    /\ \E p \in 4..Len(call_log.xml_string) :
          /\ call_log.xml_string[p] = "<link xref=\"index\">GObject.GInterface</link>"
          /\ \E i \in 1..Len(ItemsOf(call_log.xml_string)) :
                ItemsOf(call_log.xml_string)[i] =
                    [depth |-> 1, link |-> call_log.xml_string[p]]

=============================================================================
